---- MODULE Spec2Model ----
(***************************************************************************)
(* Model of the on-device object-detection core of the self-service        *)
(* inspection app: the similarity engine and the message protocol of the   *)
(* vision-classifier worker, the useObjectDetection hook with its          *)
(* module-level singleton worker, and the detection state machine made of  *)
(* InspectionCamera, useCountdown, useFrameCapture, the zustand            *)
(* inspection store and InspectionPage.                                    *)
(*                                                                         *)
(* One action is one task of an event loop: a worker message handler up to *)
(* its first await, the completion of an awaited load or inference, or a   *)
(* main-thread event (worker message, timer, camera, upload response)      *)
(* together with the React renders and effects it triggers.                *)
(***************************************************************************)
EXTENDS Integers, Sequences, FiniteSets, TLC

(***************************************************************************)
(* Bounds of the model.                                                    *)
(***************************************************************************)
MaxLevel == 1     \* similarity levels of a frame against a label: 0..MaxLevel
MaxQueue == 2     \* messages waiting in one direction of the worker channel
MaxLoads == 2     \* model loads the worker starts in one page lifetime
MaxNegs == 2      \* negative labels of a label set given to the engine
MaxSkew == 1      \* ms between two Date.now() calls of one effect run
MaxTime == 1501   \* the clock stops advancing here
MaxRun == 3       \* frames of a run of detected frames whose spacing is followed
MaxFired == 3     \* callbacks of one countdown start whose order is followed
MaxCount == 2     \* initialValue given to useCountdown on its own: 0..MaxCount

(***************************************************************************)
(* Labels, step configurations, frames.                                    *)
(***************************************************************************)
Labels == {"radiator", "door", "meter"}

\* The length of the embeddings the vision model produces (512), the unit
\* in which the lengths of embeddings are counted.
ModelDim == 1

\* A label's text embedding is identified with the label: the engine only
\* uses it through the similarity an image has to it.  dims holds the
\* lengths of targetEmbedding and of the negatives' embeddings.
StepConfigs ==
  << [target |-> "radiator", negs |-> <<"door", "meter">>,
      dims |-> <<ModelDim, ModelDim, ModelDim>>,
      threshold |-> 25, countdownSeconds |-> 2],
     [target |-> "meter", negs |-> <<"door">>,
      dims |-> <<ModelDim, ModelDim>>,
      threshold |-> 50, countdownSeconds |-> 1] >>

StepIds == 1..Len(StepConfigs)

\* A frame is what the vision model makes of it: an embedding with a cosine
\* similarity level to every label, or one of the three per-frame failures.
OkFrames == { [kind |-> "ok", sim |-> s] : s \in [Labels -> 0..MaxLevel] }

NoSim == [l \in Labels |-> 0]

BadFrames == { [kind |-> k, sim |-> NoSim] :
               k \in {"decodeError", "noEmbedding", "zeroNorm"} }

Frames == OkFrames \cup BadFrames

\* The frames the executor's clients offer: one the target matches and one
\* of each failure.
ExecFrames ==
  { [kind |-> "ok", sim |-> [l \in Labels |-> IF l = "radiator" THEN MaxLevel ELSE 0]] }
    \cup BadFrames

(***************************************************************************)
(* Similarity engine (worker classify, lines 254-303).                     *)
(* Scores are exact fractions <<numerator, denominator>>; thresholds are   *)
(* percentages.  One similarity level is ln(2)/actualScale of cosine       *)
(* similarity, so exp(score * actualScale) is 2^level.                     *)
(***************************************************************************)
RECURSIVE Pow2(_)
Pow2(n) == IF n = 0 THEN 1 ELSE 2 * Pow2(n - 1)

RECURSIVE SumSeq(_)
SumSeq(s) == IF s = <<>> THEN 0 ELSE Head(s) + SumSeq(Tail(s))

\* A row of the label embedding matrix no embedding was written to.
ZeroRow == ""

\* rawScores: one dot product per row of the label embedding matrix.
RawScores(frame, matrix) ==
  [i \in 1..Len(matrix) |-> IF matrix[i] = ZeroRow THEN 0 ELSE frame.sim[matrix[i]]]

ExpScores(rawScores) == [i \in 1..Len(rawScores) |-> Pow2(rawScores[i])]

\* probabilities[i] = expScores[i] / totalScore
Probabilities(expScores) ==
  [i \in 1..Len(expScores) |-> <<expScores[i], SumSeq(expScores)>>]

ScoreZero == <<0, 1>>

\* a.score > b.score on fractions with positive denominators
ScoreGT(a, b) == a[1] * b[2] > b[1] * a[2]

\* score >= threshold, the threshold in percent
ScoreGEThreshold(score, threshold) == score[1] * 100 >= threshold * score[2]

RemoveAt(s, i) == SubSeq(s, 1, i - 1) \o SubSeq(s, i + 1, Len(s))

\* scores = labelNames.map((label, i) => ({label, score: probabilities[i]}))
Scores(labelNames, probs) ==
  [i \in 1..Len(labelNames) |-> [label |-> labelNames[i], score |-> probs[i]]]

\* A sort that is not stable: among equal scores the highest index wins.
TopIndex_Unstable(scores) ==
  CHOOSE i \in 1..Len(scores) :
    /\ \A j \in 1..Len(scores) : ~ScoreGT(scores[j].score, scores[i].score)
    /\ \A j \in (i + 1)..Len(scores) : ScoreGT(scores[i].score, scores[j].score)

\* The element Array.prototype.sort puts first under (a, b) => b.score -
\* a.score: the sort is stable, so among equal scores the lowest index wins.
TopIndex(scores) ==
  CHOOSE i \in 1..Len(scores) :
    /\ \A j \in 1..Len(scores) : ~ScoreGT(scores[j].score, scores[i].score)
    /\ \A j \in 1..(i - 1) : ScoreGT(scores[i].score, scores[j].score)

\* [...scores].sort((a, b) => b.score - a.score)
RECURSIVE Sorted(_)
Sorted(scores) ==
  IF scores = <<>> THEN <<>>
  ELSE LET i == TopIndex(scores)
       IN  << scores[i] >> \o Sorted(RemoveAt(scores, i))

TopK == 5

\* sorted.slice(0, 5)
Slice(sorted) ==
  SubSeq(sorted, 1, IF Len(sorted) < TopK THEN Len(sorted) ELSE TopK)

\* scores[0]?.score || 0
TargetScore(scores) == IF Len(scores) = 0 THEN ScoreZero ELSE scores[1].score

\* A top match that only counts when there is a second label to beat.
IsTargetTopMatch_NeedsRival(sorted, targetLabel) ==
  /\ Len(sorted) > 1
  /\ sorted[1].label = targetLabel

\* topMatch?.label === targetLabel
IsTargetTopMatch(sorted, targetLabel) ==
  /\ Len(sorted) > 0
  /\ sorted[1].label = targetLabel

\* targetScore > detectionThreshold
IsAboveThreshold_Strict(targetScore, detectionThreshold) ==
  targetScore[1] * 100 > detectionThreshold * targetScore[2]

IsAboveThreshold(targetScore, detectionThreshold) ==
  ScoreGEThreshold(targetScore, detectionThreshold)

IsDetected(isTargetTopMatch, isAboveThreshold) ==
  isTargetTopMatch /\ isAboveThreshold

\* The probabilities classify computes for a frame it could embed.
ProbabilitiesOf(frame, w) ==
  Probabilities(ExpScores(RawScores(frame, w.labelEmbeddingMatrix)))

\* The detection message the worker posts for a frame it could embed.
DetectionOf(frame, w) ==
  LET scores == Scores(w.labelNames, ProbabilitiesOf(frame, w))
      sorted == Sorted(scores)
      targetScore == TargetScore(scores)
  IN  [type |-> "detection",
       targetLabel |-> w.targetLabel,
       targetScore |-> targetScore,
       isDetected |->
         IsDetected(IsTargetTopMatch(sorted, w.targetLabel),
                    IsAboveThreshold(targetScore, w.detectionThreshold)),
       allScores |-> Slice(sorted)]


(***************************************************************************)
(* State.                                                                  *)
(***************************************************************************)
VARIABLES
  worker,   \* the worker's module-level state (processor, labelNames, ...)
  inbox,    \* messages posted to the worker, not yet handled
  tasks,    \* frames whose classify call is suspended at an await
  outbox,   \* messages posted by the worker, not yet dispatched
  globals,  \* useObjectDetection's module-level variables
  hook,     \* state, refs and listeners of each useObjectDetection instance
  ghost,    \* history: counters observing the run
  ui        \* the page: inspection store, InspectionCamera, useCountdown,
            \* useFrameCapture, pending uploads, the session backend, the clock

vars == <<worker, inbox, tasks, outbox, globals, hook, ghost, ui>>

Hooks == {1, 2}

NoFrame == [kind |-> "none", sim |-> NoSim]

\* main thread -> worker
ToWorker(type, cfg, frame) == [type |-> type, cfg |-> cfg, frame |-> frame]

NoConfig ==
  [target |-> "", negs |-> <<>>, dims |-> <<>>, threshold |-> 0,
   countdownSeconds |-> 0]

\* worker -> main thread
FromWorker(type) ==
  [type |-> type, targetLabel |-> "", targetScore |-> ScoreZero,
   isDetected |-> FALSE, allScores |-> <<>>]

NoDetection == FromWorker("none")

(***************************************************************************)
(* The session backend (mock API): sessionStates, getSessionState,         *)
(* mockGetSession and mockCaptureStep.  A step's stepId is its index in    *)
(* INSPECTION_STEPS, counted from 1.                                       *)
(***************************************************************************)
SessionIds == {"abc", "xyz"}

\* The session the inspection page was opened for.
PageSession == "abc"

\* sessionStates has no entry for the session.
NoSession == [currentStepIndex |-> 0, completedSteps |-> <<>>, status |-> "none"]

\* The state getSessionState creates.
SessionCreated == [NoSession EXCEPT !.status = "active"]

\* getSessionState(sessionId): sessionStates afterwards.
GetSessionState(sessions, sessionId) ==
  IF sessions[sessionId] = NoSession
  THEN [sessions EXCEPT ![sessionId] = SessionCreated]
  ELSE sessions

\* A currentStep built for every session, active or not.
SessionCurrentStep_Always(state) == state.currentStepIndex + 1

\* mockGetSession's currentStep: 0 stands for null.
SessionCurrentStep(state) ==
  IF state.status = "active" THEN state.currentStepIndex + 1 ELSE 0

\* A mockCaptureStep that looks at the step before it looks at the status.
CaptureOutcome_StepFirst(state, stepId) ==
  IF state.currentStepIndex + 1 # stepId THEN "STEP_ALREADY_COMPLETED"
  ELSE IF state.status # "active" THEN "SESSION_EXPIRED"
  ELSE "success"

\* How mockCaptureStep ends for a session in this state: success, or the
\* code of the error it throws.
CaptureOutcome(state, stepId) ==
  IF state.status # "active" THEN "SESSION_EXPIRED"
  ELSE IF state.currentStepIndex + 1 # stepId THEN "STEP_ALREADY_COMPLETED"
  ELSE "success"

\* A mockCaptureStep that never completes the session.
MockCaptureStep_NeverCompletes(state, stepId, detectedScore) ==
  IF CaptureOutcome(state, stepId) # "success" THEN state
  ELSE [state EXCEPT
          !.completedSteps =
            Append(@, [stepId |-> stepId, detectedScore |-> detectedScore]),
          !.currentStepIndex = @ + 1]

\* The session's state after mockCaptureStep.
MockCaptureStep(state, stepId, detectedScore) ==
  IF CaptureOutcome(state, stepId) # "success" THEN state
  ELSE [state EXCEPT
          !.completedSteps =
            Append(@, [stepId |-> stepId, detectedScore |-> detectedScore]),
          !.currentStepIndex = @ + 1,
          !.status = IF state.currentStepIndex + 1 >= Len(StepConfigs)
                     THEN "completed" ELSE @]

(***************************************************************************)
(* The page state: the zustand store (store/inspectionStore), the state    *)
(* and refs of InspectionCamera, useCountdown and useFrameCapture, the     *)
(* uploads awaited by handleCaptureComplete and the session backend.       *)
(***************************************************************************)
Null == -1   \* null in a field that otherwise holds a Date.now() value

SUSTAINED_DETECTION_MS == 1000

\* Initial state of useInspectionStore.  step stands for currentStep
\* (0: null), error for error !== null.
StoreInit ==
  [ sessionId |-> "",     \* null, or the id given to setSessionId
    session |-> "none",   \* null, or the status of the session held
    phase |-> "loading", step |-> 0, error |-> FALSE,
    currentScore |-> ScoreZero, isDetected |-> FALSE,
    sustainedDetectionStart |-> Null, countdownValue |-> 3 ]

\* InspectionCamera's own state and refs while it is not rendered.
CameraInit ==
  [ mounted |-> FALSE, sustainedStartRef |-> Null, webcamReady |-> FALSE,
    webcamError |-> FALSE, capturedScore |-> ScoreZero ]

\* useCountdown: value, isActive, whether intervalRef holds a timer, and
\* (history) how many interval timers were set and not cleared.
CountdownInit(initialValue) ==
  [ value |-> initialValue, isActive |-> FALSE, timer |-> FALSE, live |-> 0,
    initial |-> initialValue,  \* options.initialValue at the first render
    fired |-> <<>> ]   \* history: the callbacks (complete, cancel) invoked
                       \* since start was last called

\* intervalRef.current = window.setInterval(...)
SetInterval(cd) == [cd EXCEPT !.timer = TRUE, !.live = @ + 1]

\* if (intervalRef.current) { clearInterval(...); intervalRef.current = null }
ClearInterval(cd) ==
  IF cd.timer THEN [cd EXCEPT !.timer = FALSE, !.live = @ - 1] ELSE cd

\* History of the current run of consecutive detected frames delivered in
\* phase detecting: its length, the time of its first and last frame, the
\* spacing of its frames (dt, uniform so far), whether it began with no
\* sustaining timestamp (clean), whether its last frame started the countdown
\* timer (started) and the phase its last frame left behind.  When a frame
\* that is not detected has just ended such a run while it was sustaining,
\* ended is the length the run had and dt its spacing, the frame's included.
RunNone ==
  [ len |-> 0, first |-> 0, last |-> 0, dt |-> 0, uniform |-> TRUE,
    clean |-> FALSE, started |-> FALSE, phase |-> "detecting", ended |-> 0 ]

\* History of the last completion of a countdown: the phase setPhase('capturing')
\* replaced, the counter's value, whether the full-resolution capture gave an
\* image; seq alternates with every completion.
CaptureNone == [ from |-> "none", value |-> 0, ok |-> FALSE, seq |-> 0 ]

UiInit ==
  [ store |-> [StoreInit EXCEPT !.sessionId = PageSession],
                              \* the fetch effect has called setSessionId
    cam |-> CameraInit,
    cd |-> CountdownInit(0),
    frameTimer |-> FALSE,     \* useFrameCapture's interval is running
    uploads |-> <<>>,         \* captureStep calls awaiting their response
    server |-> [id \in SessionIds |-> NoSession],  \* the backend's sessionStates
    route |-> "inspect",      \* inspect | complete
    now |-> 1,                \* Date.now()
    run |-> RunNone,          \* history
    lastCapture |-> CaptureNone,  \* history
    sentIn |-> [phase |-> "none", webcamReady |-> FALSE],
                              \* history: the store's phase and the webcam's
                              \* state when classify last posted a frame
    shortRuns |-> TRUE ]      \* history: no run of detected frames has
                              \* spanned sustainedMs (less the clock skew)

\* What the surroundings contribute to one main-thread event: the frame the
\* webcam shows, whether a full-resolution capture yields an image, and the
\* milliseconds that pass between the component's and the store's Date.now().
NoEnv == [frame |-> NoFrame, captureOk |-> FALSE, skew |-> 0]

(***************************************************************************)
(* The worker (visionClassifier.worker.ts).                                *)
(***************************************************************************)
WorkerInit ==
  [ visionModel |-> FALSE,          \* processor and visionModel are set together
    hasMatrix |-> FALSE,            \* labelEmbeddingMatrix !== null
    labelEmbeddingMatrix |-> <<>>,  \* one row per label: the label's embedding
    labelNames |-> <<>>,
    embeddingDim |-> ModelDim,
    isInitialized |-> FALSE,
    isInitializing |-> FALSE,
    detectionMode |-> FALSE,
    targetLabel |-> "",
    detectionThreshold |-> 50 ]

\* initialize(data) up to its await of the model load.
InitializeStart(w, data) ==
  IF w.isInitialized \/ w.isInitializing
  THEN w
  ELSE LET dim == data.cfg.dims[1]
       IN  [w EXCEPT !.isInitializing = TRUE,
                     !.labelNames = << data.cfg.target >>,
                     !.embeddingDim = IF dim = 0 THEN ModelDim ELSE dim,
                     !.labelEmbeddingMatrix =
                       << IF dim = 0 THEN ZeroRow ELSE data.cfg.target >>,
                     !.hasMatrix = TRUE]

\* An initialize that posts ready for every request.
InitializeReply_Always(w) == << FromWorker("ready") >>

\* What initialize posts before its await: ready when already initialized.
InitializeReply(w) == IF w.isInitialized THEN << FromWorker("ready") >> ELSE <<>>

\* initialize after the await resolved: the model is loaded.
InitializeLoaded(w) ==
  [w EXCEPT !.visionModel = TRUE, !.isInitialized = TRUE,
            !.isInitializing = FALSE]

\* initialize's catch block.
InitializeFailed(w) == [w EXCEPT !.isInitializing = FALSE]

\* labelEmbeddingMatrix.set(item.embedding, i * embeddingDim) throws a
\* RangeError, before it writes anything, when the embedding does not fit
\* between its offset and the end of the matrix.
SetThrows(dims, i) == dims[i] > (Len(dims) - i + 1) * dims[1]

\* The first row whose set throws; 0 when allLabels.forEach runs to its end.
FirstThrow(dims) ==
  IF \E i \in 1..Len(dims) : SetThrows(dims, i)
  THEN CHOOSE i \in 1..Len(dims) :
         SetThrows(dims, i) /\ \A j \in 1..(i - 1) : ~SetThrows(dims, j)
  ELSE 0

\* The matrix updateLabels leaves: new Float32Array(allLabels.length *
\* embeddingDim) is all zeros, and a row holds its label's embedding once
\* the forEach has written it.
LabelMatrix(allLabels, dims) ==
  IF dims[1] = 0 THEN <<>>
  ELSE [i \in 1..Len(allLabels) |->
          IF dims[i] = 0 \/ (FirstThrow(dims) # 0 /\ i >= FirstThrow(dims))
          THEN ZeroRow ELSE allLabels[i]]

\* An updateLabels that keeps the threshold of the previous label set.
UpdateLabels_KeepsThreshold(w, data) ==
  LET cfg == data.cfg
      allLabels == << cfg.target >> \o cfg.negs
  IN  [w EXCEPT !.detectionMode = TRUE,
                !.targetLabel = cfg.target,
                !.labelNames = allLabels,
                !.embeddingDim = cfg.dims[1],
                !.labelEmbeddingMatrix = LabelMatrix(allLabels, cfg.dims),
                !.hasMatrix = TRUE]

\* An updateLabels that puts the target after the negatives.
UpdateLabels_TargetLast(w, data) ==
  LET cfg == data.cfg
      allLabels == cfg.negs \o << cfg.target >>
  IN  [w EXCEPT !.detectionMode = TRUE,
                !.targetLabel = cfg.target,
                !.detectionThreshold = cfg.threshold,
                !.labelNames = allLabels,
                !.embeddingDim = cfg.dims[1],
                !.labelEmbeddingMatrix = LabelMatrix(allLabels, cfg.dims),
                !.hasMatrix = TRUE]

\* updateLabels(data): target first, then the negatives.  Every assignment
\* precedes the forEach that fills the matrix.
UpdateLabels(w, data) ==
  LET cfg == data.cfg
      allLabels == << cfg.target >> \o cfg.negs
  IN  [w EXCEPT !.detectionMode = TRUE,
                !.targetLabel = cfg.target,
                !.detectionThreshold = cfg.threshold,
                !.labelNames = allLabels,
                !.embeddingDim = cfg.dims[1],
                !.labelEmbeddingMatrix = LabelMatrix(allLabels, cfg.dims),
                !.hasMatrix = TRUE]

\* What updateLabels posts: labelsUpdated, unless the forEach threw.
UpdateLabelsReply(data) ==
  IF FirstThrow(data.cfg.dims) # 0 THEN <<>> ELSE << FromWorker("labelsUpdated") >>

\* classify's guard: without model or matrix it returns without a message.
ClassifyAccepts(w) == w.visionModel /\ w.hasMatrix

\* imageNorm === 0: the frame's embedding has zero norm, or embeddingDim
\* is 0 and the norm is summed over nothing.
ZeroNorm(w, frame) == frame.kind = "zeroNorm" \/ w.embeddingDim = 0

\* A classify that reports a frame it could not score as a non-detection.
ClassifyReply_MissOnFailure(w, frame) ==
  IF (frame.kind # "ok" \/ ZeroNorm(w, frame)) /\ w.detectionMode
  THEN << [FromWorker("detection") EXCEPT !.targetLabel = w.targetLabel] >>
  ELSE IF frame.kind # "ok" \/ ZeroNorm(w, frame) THEN <<>>
  ELSE IF w.detectionMode THEN << DetectionOf(frame, w) >>
  ELSE << FromWorker("result") >>

\* What classify posts once the vision model has answered.
ClassifyReply(w, frame) ==
  IF frame.kind # "ok" \/ ZeroNorm(w, frame) THEN <<>>
  ELSE IF w.detectionMode THEN << DetectionOf(frame, w) >>
  ELSE << FromWorker("result") >>

\* self.onmessage: the head of the inbox is handled up to its first await.
WorkerOnMessage ==
  /\ inbox # <<>>
  /\ LET data == Head(inbox)
         reply == IF data.type = "init" THEN InitializeReply(worker)
                  ELSE IF data.type = "updateLabels" THEN UpdateLabelsReply(data)
                  ELSE <<>>
         startsLoad == data.type = "init" /\ ~worker.isInitialized
                         /\ ~worker.isInitializing
         accepted == data.type = "classify" /\ ClassifyAccepts(worker)
     IN  /\ Len(outbox) + Len(reply) <= MaxQueue
         /\ startsLoad => ghost.loadCount < MaxLoads
         /\ accepted => Len(tasks) < MaxQueue
         /\ inbox' = Tail(inbox)
         /\ outbox' = outbox \o reply
         /\ worker' = IF data.type = "init" THEN InitializeStart(worker, data)
                      ELSE IF data.type = "updateLabels"
                           THEN UpdateLabels(worker, data)
                      ELSE worker
         /\ tasks' = IF accepted THEN Append(tasks, data.frame) ELSE tasks
         /\ ghost' = [ghost EXCEPT
                        !.loadCount = IF startsLoad THEN @ + 1 ELSE @,
                        !.inits = IF data.type = "init" THEN @ + 1 ELSE @,
                        !.lastLabels = IF data.type = "updateLabels"
                                       THEN data.cfg ELSE @,
                        !.midFlight = IF data.type = "updateLabels"
                                      THEN tasks # <<>>
                                      ELSE IF accepted THEN FALSE ELSE @,
                        !.readyCount = IF data.type = "init" THEN @ + Len(reply)
                                       ELSE @]
  /\ UNCHANGED <<globals, hook, ui>>

\* progress_callback during the load: zero or more progress messages.
LoadProgress ==
  /\ worker.isInitializing
  /\ Len(outbox) < MaxQueue
  /\ outbox' = Append(outbox, FromWorker("progress"))
  /\ UNCHANGED <<worker, inbox, tasks, globals, hook, ghost, ui>>

LoadSucceeds ==
  /\ worker.isInitializing
  /\ Len(outbox) < MaxQueue
  /\ worker' = InitializeLoaded(worker)
  /\ outbox' = Append(outbox, FromWorker("ready"))
  /\ ghost' = [ghost EXCEPT !.readyCount = @ + 1]
  /\ UNCHANGED <<inbox, tasks, globals, hook, ui>>

LoadFails ==
  /\ worker.isInitializing
  /\ Len(outbox) < MaxQueue
  /\ worker' = InitializeFailed(worker)
  /\ outbox' = Append(outbox, FromWorker("error"))
  /\ ghost' = [ghost EXCEPT !.errorCount = @ + 1]
  /\ UNCHANGED <<inbox, tasks, globals, hook, ui>>

\* A suspended classify resumes after the vision model answered (or threw):
\* it reads the label state as it is now and posts at most one message.
ClassifyFinish(i) ==
  /\ i \in 1..Len(tasks)
  /\ LET reply == ClassifyReply(worker, tasks[i])
     IN  /\ Len(outbox) + Len(reply) <= MaxQueue
         /\ outbox' = outbox \o reply
         /\ ghost' = [ghost EXCEPT
                        !.frameFailed = IF reply = <<>> THEN TRUE ELSE @]
  /\ tasks' = RemoveAt(tasks, i)
  /\ UNCHANGED <<worker, inbox, globals, hook, ui>>


(***************************************************************************)
(* useObjectDetection (hooks/useObjectDetection).                          *)
(***************************************************************************)
GlobalsInit ==
  [ workerInstance |-> 0,         \* Worker objects constructed by getWorker
    workerInitialized |-> FALSE,
    workerInitializing |-> FALSE,
    initPromise |-> "null" ]      \* null | pending | fulfilled | rejected

\* A hook instance right after its first render: the useState/useRef initial
\* values.  hInit, hLabels, hDet: handleInitMessage, handleLabelsUpdated and
\* handleDetection are registered on the worker; awaiting: a then-callback of
\* this instance is registered on the pending initPromise.  gen (history):
\* the initPromise this instance created or awaited, counted from 1.
HookFresh(g, step) ==
  [ mounted |-> TRUE, step |-> step,
    isLoading |-> TRUE, error |-> FALSE,
    modelReady |-> g.workerInitialized, isReady |-> FALSE,
    inferringRef |-> FALSE, detection |-> NoDetection,
    hInit |-> FALSE, hLabels |-> FALSE, hDet |-> FALSE, awaiting |-> FALSE,
    gen |-> 0 ]

HookUnmounted ==
  [ mounted |-> FALSE, step |-> 1,
    isLoading |-> TRUE, error |-> FALSE,
    modelReady |-> FALSE, isReady |-> FALSE,
    inferringRef |-> FALSE, detection |-> NoDetection,
    hInit |-> FALSE, hLabels |-> FALSE, hDet |-> FALSE, awaiting |-> FALSE,
    gen |-> 0 ]

\* A getWorker that constructs a Worker on every call.
GetWorker_Always(g) == [g EXCEPT !.workerInstance = @ + 1]

\* The main thread while one event is handled: m.globals and m.hook are the
\* state so far, m.posts the messages posted to the worker so far.
GetWorker(g) == IF g.workerInstance = 0 THEN [g EXCEPT !.workerInstance = 1] ELSE g

\* setModelReady(true); setLoadingState(isLoading: false, status: 'Model ready!')
SetModelReady(hk) == [hk EXCEPT !.modelReady = TRUE, !.isLoading = FALSE]

\* The "Initialize worker and model" effect of instance h (its body; the
\* cleanup of the previous run has already removed handleInitMessage).
InitEffect(m, h) ==
  LET g == m.globals
      hk == m.hook[h]
  IN  IF g.workerInitialized
      THEN [m EXCEPT !.hook[h] = SetModelReady(hk)]
      ELSE IF g.workerInitializing /\ g.initPromise # "null"
      THEN [m EXCEPT !.hook[h] =
              IF g.initPromise = "fulfilled" THEN SetModelReady(hk)
              ELSE IF g.initPromise = "pending"
                   THEN [hk EXCEPT !.awaiting = TRUE, !.gen = m.promises]
              ELSE hk]
      ELSE [m EXCEPT
              !.globals = [GetWorker(g) EXCEPT !.workerInitializing = TRUE,
                                               !.initPromise = "pending"],
              !.hook[h] = [hk EXCEPT !.hInit = TRUE, !.gen = m.promises + 1],
              !.promises = @ + 1,
              !.posts = Append(@, ToWorker("init", StepConfigs[hk.step], NoFrame)),
              !.overlap = @ \/ g.initPromise = "pending"]

\* The "Update labels" effect of instance h.
LabelsEffect(m, h) ==
  IF ~m.hook[h].modelReady
  THEN [m EXCEPT !.hook[h].hLabels = FALSE]
  ELSE [m EXCEPT
          !.globals = GetWorker(@),
          !.hook[h].hLabels = TRUE,
          !.posts = Append(@, ToWorker("updateLabels", StepConfigs[m.hook[h].step], NoFrame))]

\* The "Handle detection results" effect of instance h.
DetectionEffect(m, h) ==
  [m EXCEPT !.globals = GetWorker(@), !.hook[h].hDet = TRUE]

\* First render and first effects of instance h, with the re-render the
\* init effect causes when it finds the model already loaded.
MountHook(m, h, step) ==
  LET m0 == [m EXCEPT !.hook[h] = HookFresh(m.globals, step)]
      m1 == InitEffect(m0, h)
  IN  DetectionEffect(LabelsEffect(m1, h), h)

\* Cleanups of all effects of instance h.
UnmountHook(m, h) == [m EXCEPT !.hook[h] = HookUnmounted]

\* Instance h is rendered with changed props: a new device (same step) re-runs
\* the init effect; a new step re-runs the init and the labels effects.
RerenderHook(m, h, step) ==
  LET wasReady == m.hook[h].modelReady
      changed == step # m.hook[h].step
      m0 == [m EXCEPT !.hook[h].hInit = FALSE, !.hook[h].step = step]
      m1 == InitEffect(m0, h)
  IN  IF changed \/ (m1.hook[h].modelReady /\ ~wasReady)
      THEN LabelsEffect(m1, h)
      ELSE m1

\* classify(imageDataUrl) of instance h.
ClassifyCall(m, h, frame) ==
  IF ~m.hook[h].isReady \/ m.hook[h].inferringRef
  THEN m
  ELSE [m EXCEPT !.hook[h].inferringRef = TRUE,
                 !.globals = GetWorker(@),
                 !.posts = Append(@, ToWorker("classify", NoConfig, frame)),
                 !.ui.sentIn = [phase |-> m.ui.store.phase,
                                webcamReady |-> m.ui.cam.webcamReady]]

\* A ready message only the instance that started the load hears.
OnReady_StarterOnly(m, h) ==
  LET hk == m.hook[h]
      m1 == [m EXCEPT !.hook[h] = [SetModelReady(hk) EXCEPT !.awaiting = FALSE]]
  IN  IF ~hk.hInit THEN m
      ELSE IF hk.modelReady THEN m1
      ELSE LabelsEffect(m1, h)

\* Listeners of instance h on a ready message: handleInitMessage, and the
\* then-callback of a late waiter once checkReady resolved initPromise.
OnReady(m, h) ==
  LET hk == m.hook[h]
      hears == hk.hInit \/ (hk.awaiting /\ m.settles)
      m1 == [m EXCEPT !.hook[h] = [SetModelReady(hk) EXCEPT !.awaiting = FALSE]]
  IN  IF ~hears THEN m
      ELSE IF hk.modelReady THEN m1
      ELSE LabelsEffect(m1, h)

\* Listeners of instance h on an error message: handleInitMessage only; the
\* late waiters registered no rejection handler.
OnError(m, h) ==
  LET hk == m.hook[h]
  IN  [m EXCEPT !.hook[h] =
         IF hk.hInit
         THEN [hk EXCEPT !.isLoading = FALSE, !.error = TRUE, !.awaiting = FALSE]
         ELSE [hk EXCEPT !.awaiting = IF m.settles THEN FALSE ELSE @]]

OnLabelsUpdated(m, h) ==
  IF m.hook[h].hLabels THEN [m EXCEPT !.hook[h].isReady = TRUE] ELSE m

OnDetection(m, h) ==
  IF m.hook[h].hDet
  THEN [m EXCEPT !.hook[h].detection = m.msg, !.hook[h].inferringRef = FALSE,
                 !.newDetection = TRUE]
  ELSE m

\* The module-level flags after a ready or error message: handleInitMessage
\* of any instance sets them, checkReady settles the pending promise.
OnInitOutcome(m) ==
  LET heard == \E h \in Hooks : m.hook[h].hInit
      g == m.globals
  IN  [m EXCEPT
         !.globals =
           [g EXCEPT
              !.workerInitialized = IF heard /\ m.msg.type = "ready" THEN TRUE ELSE @,
              !.workerInitializing = IF heard THEN FALSE ELSE @,
              !.initPromise = IF g.initPromise # "pending" THEN @
                              ELSE IF m.msg.type = "ready" THEN "fulfilled"
                              ELSE "rejected"]]

\* The listeners of instance h on the message m.msg.
HookOnMessage(m, h) ==
  IF m.msg.type = "ready" THEN OnReady(m, h)
  ELSE IF m.msg.type = "error" THEN OnError(m, h)
  ELSE IF m.msg.type = "labelsUpdated" THEN OnLabelsUpdated(m, h)
  ELSE IF m.msg.type = "detection" THEN OnDetection(m, h)
  ELSE m

RECURSIVE ForEachHook(_, _)
\* The listeners of the instances of S, in the order the instances registered.
ForEachHook(S, m) ==
  IF S = {} THEN m
  ELSE LET h == CHOOSE x \in S : \A y \in S : x <= y
       IN  ForEachHook(S \ {h}, HookOnMessage(m, h))

\* One message of the worker dispatched to every listener registered on it.
HooksOnMessage(m) ==
  IF m.msg.type \in {"ready", "error"}
  THEN OnInitOutcome(ForEachHook(Hooks, m))
  ELSE ForEachHook(Hooks, m)


(***************************************************************************)
(* Main-thread events of the executor.                                     *)
(***************************************************************************)
\* The main thread at the start of an event.
Main ==
  [ globals |-> globals, hook |-> hook, posts |-> <<>>,
    msg |-> NoDetection, settles |-> globals.initPromise = "pending",
    promises |-> ghost.promises, overlap |-> ghost.overlap,
    ui |-> ui, env |-> NoEnv, newDetection |-> FALSE ]

\* The event's outcome becomes the state; its posts join the worker's inbox.
CommitHooks(m) ==
  /\ Len(inbox) + Len(m.posts) <= MaxQueue
  /\ inbox' = inbox \o m.posts
  /\ globals' = m.globals
  /\ hook' = m.hook

\* The history the event leaves.
GhostOf(m) == [ghost EXCEPT !.promises = m.promises, !.overlap = m.overlap]

GhostInit ==
  [ loadCount |-> 0,      \* model loads started by the worker
    inits |-> 0,          \* init requests handled by the worker
    readyCount |-> 0,     \* ready messages posted by the worker
    lastLabels |-> NoConfig,  \* the last updateLabels request handled
    errorCount |-> 0,     \* error messages posted by the worker
    frameFailed |-> FALSE,  \* a classify call ended without a message
    lastOffer |-> "none", \* what classify did with the last frame offered
    promises |-> 0,       \* initPromise objects created
    abandoned |-> FALSE,  \* the instance whose init is in flight unmounted
    midFlight |-> FALSE,  \* the last updateLabels request was handled while a
                          \* classify call was suspended, and no classify
                          \* call was accepted since
    lastCall |-> [session |-> "", stepId |-> 0, outcome |-> "none",
                  nextStep |-> -1, seq |-> 0],
                          \* the last captureStep call a client made; nextStep
                          \* is its response's (0: null, -1: it threw)
    lastGet |-> [session |-> "", status |-> "none", currentStep |-> 0,
                 completed |-> 0, seq |-> 0],
                          \* the last getSession response a client received
    overlap |-> FALSE ]   \* an initPromise was replaced while still pending

\* A component using the hook mounts.
Mount(h, step) ==
  /\ ~hook[h].mounted
  /\ LET m == MountHook(Main, h, step)
     IN  /\ CommitHooks(m)
         /\ ghost' = GhostOf(m)
  /\ UNCHANGED <<worker, tasks, outbox, ui>>

Unmount(h) ==
  /\ hook[h].mounted
  /\ CommitHooks(UnmountHook(Main, h))
  /\ ghost' = [ghost EXCEPT
                 !.abandoned = @ \/ (hook[h].hInit
                                       /\ globals.initPromise = "pending")]
  /\ UNCHANGED <<worker, tasks, outbox, ui>>

\* The component is rendered with another device or another step.
PropsChange(h, step) ==
  /\ hook[h].mounted
  /\ LET m == RerenderHook(Main, h, step)
     IN  /\ CommitHooks(m)
         /\ ghost' = GhostOf(m)
  /\ UNCHANGED <<worker, tasks, outbox, ui>>

\* The component offers a frame to classify.
OfferFrame(h, frame) ==
  /\ hook[h].mounted
  /\ LET m == ClassifyCall(Main, h, frame)
     IN  /\ CommitHooks(m)
         /\ ghost' = [ghost EXCEPT
                        !.lastOffer = IF m.posts = <<>> THEN "dropped" ELSE "sent"]
  /\ UNCHANGED <<worker, tasks, outbox, ui>>

\* The main thread dispatches the next message of the worker.
DeliverMessage ==
  /\ outbox # <<>>
  /\ CommitHooks(HooksOnMessage([Main EXCEPT !.msg = Head(outbox)]))
  /\ outbox' = Tail(outbox)
  /\ UNCHANGED <<worker, tasks, ghost, ui>>

(***************************************************************************)
(* SpecInit: the executor's initialization and label protocol with two     *)
(* hook instances that mount, unmount and re-render at any time.           *)
(***************************************************************************)
InitExec ==
  /\ worker = WorkerInit
  /\ inbox = <<>>
  /\ tasks = <<>>
  /\ outbox = <<>>
  /\ globals = GlobalsInit
  /\ hook = [h \in Hooks |-> HookUnmounted]
  /\ ghost = GhostInit
  /\ ui = UiInit

NextInit ==
  \/ WorkerOnMessage
  \/ LoadProgress
  \/ LoadSucceeds
  \/ LoadFails
  \/ DeliverMessage
  \/ \E h \in Hooks, step \in StepIds : Mount(h, step)
  \/ \E h \in Hooks : Unmount(h)
  \/ \E h \in Hooks, step \in StepIds : PropsChange(h, step)

SpecInit == InitExec /\ [][NextInit]_vars

(***************************************************************************)
(* SpecFrames: frames offered to the executor by one component that may    *)
(* unmount and mount again (each mount is a new hook instance).            *)
(***************************************************************************)
NextFrames ==
  \/ WorkerOnMessage
  \/ LoadSucceeds
  \/ \E i \in 1..Len(tasks) : ClassifyFinish(i)
  \/ DeliverMessage
  \/ \E step \in StepIds : Mount(1, step)
  \/ Unmount(1)
  \/ \E step \in StepIds : PropsChange(1, step)
  \/ \E frame \in ExecFrames : OfferFrame(1, frame)

SpecFrames == InitExec /\ [][NextFrames]_vars


(***************************************************************************)
(* SpecEngine: the similarity engine alone.  A loaded worker is given any  *)
(* label set and threshold and classifies any frame.                       *)
(***************************************************************************)
\* detectionThreshold is any value in 0..1 (BACKEND_API.md); in percent.
EngineThresholds == {25, 50, 100}

IsInjective(f) == \A i, j \in DOMAIN f : f[i] = f[j] => i = j

\* The label sets a step can carry: a target and distinct negatives.
EngineConfigs ==
  { c \in [ target : Labels,
            negs : UNION { [1..n -> Labels] : n \in 0..MaxNegs },
            dims : UNION { [1..n -> {ModelDim}] : n \in 1..(MaxNegs + 1) },
            threshold : EngineThresholds,
            countdownSeconds : {0} ] :
      /\ IsInjective(<< c.target >> \o c.negs)
      /\ Len(c.dims) = 1 + Len(c.negs) }

WorkerLoaded ==
  InitializeLoaded(
    InitializeStart(WorkerInit, ToWorker("init", StepConfigs[1], NoFrame)))

InitEngine ==
  /\ worker = WorkerLoaded
  /\ \E cfg \in EngineConfigs, frame \in Frames :
       inbox = << ToWorker("updateLabels", cfg, NoFrame),
                  ToWorker("classify", NoConfig, frame) >>
  /\ tasks = <<>>
  /\ outbox = <<>>
  /\ globals = GlobalsInit
  /\ hook = [h \in Hooks |-> HookUnmounted]
  /\ ghost = [GhostInit EXCEPT !.loadCount = 1, !.inits = 1, !.readyCount = 1]
  /\ ui = UiInit

NextEngine ==
  \/ WorkerOnMessage
  \/ \E i \in 1..Len(tasks) : ClassifyFinish(i)

SpecEngine == InitEngine /\ [][NextEngine]_vars

(***************************************************************************)
(* SpecSetup: a loaded worker holding the first step's labels is given a   *)
(* label set whose embeddings may differ in length, then classifies a      *)
(* frame.                                                                  *)
(***************************************************************************)
\* The lengths an embedding of a label set has: none (what getEmbedding
\* returns for a label it does not know), the model's, or a longer one.
EmbeddingLengths == {0, ModelDim, ModelDim + 1}

\* The lengths of the embeddings of n labels.  A longer embedding is the
\* last one's: set() would write a longer one anywhere else across the
\* next row.
SetupDims(n) ==
  { d \in [1..n -> EmbeddingLengths] : \A i \in 1..n : i < n \/ n = 1 => d[i] <= ModelDim }

SetupConfigs ==
  UNION { { [c EXCEPT !.dims = d] : d \in SetupDims(Len(c.dims)) } :
          c \in EngineConfigs }

InitSetup ==
  /\ worker = WorkerLoaded
  /\ \E cfg \in SetupConfigs, frame \in ExecFrames :
       inbox = << ToWorker("updateLabels", StepConfigs[1], NoFrame),
                  ToWorker("updateLabels", cfg, NoFrame),
                  ToWorker("classify", NoConfig, frame) >>
  /\ tasks = <<>>
  /\ outbox = <<>>
  /\ globals = GlobalsInit
  /\ hook = [h \in Hooks |-> HookUnmounted]
  /\ ghost = [GhostInit EXCEPT !.loadCount = 1, !.inits = 1, !.readyCount = 1]
  /\ ui = UiInit

SpecSetup == InitSetup /\ [][NextEngine]_vars

(***************************************************************************)
(* SpecWorker: the worker alone behind its message interface.  A client    *)
(* posts init, updateLabels and classify in any order and takes the        *)
(* worker's messages.                                                      *)
(***************************************************************************)
\* Messages of one type waiting in the worker's inbox.
Waiting(type) == Len(SelectSeq(inbox, LAMBDA d : d.type = type))

\* worker.postMessage(data) by the client.
ClientPost(data) ==
  /\ Len(inbox) < MaxQueue
  /\ data.type = "init" => ghost.inits + Waiting("init") < MaxLoads
  /\ inbox' = Append(inbox, data)
  /\ UNCHANGED <<worker, tasks, outbox, globals, hook, ghost, ui>>

\* The client's message event: the next message of the worker is taken.
ClientReceive ==
  /\ outbox # <<>>
  /\ outbox' = Tail(outbox)
  /\ UNCHANGED <<worker, inbox, tasks, globals, hook, ghost, ui>>

NextWorker ==
  \/ \E i \in StepIds : ClientPost(ToWorker("init", StepConfigs[i], NoFrame))
  \/ \E i \in StepIds : ClientPost(ToWorker("updateLabels", StepConfigs[i], NoFrame))
  \/ \E frame \in ExecFrames : ClientPost(ToWorker("classify", NoConfig, frame))
  \/ ClientReceive
  \/ WorkerOnMessage
  \/ LoadProgress
  \/ LoadSucceeds
  \/ LoadFails
  \/ \E i \in 1..Len(tasks) : ClassifyFinish(i)

SpecWorker == InitExec /\ [][NextWorker]_vars

(***************************************************************************)
(* SpecSession: the session backend alone.  Clients get sessions and       *)
(* capture steps, current or not, in any order.                            *)
(***************************************************************************)
\* A stepId no step of the inspection has.
UnknownStep == Len(StepConfigs) + 1

SessionScores == {ScoreZero, <<1, 2>>}

\* mockGetSession(sessionId)
ClientGetSession(sessionId) ==
  LET state == GetSessionState(ui.server, sessionId)[sessionId]
  IN  /\ ui' = [ui EXCEPT !.server = GetSessionState(@, sessionId)]
      /\ ghost' = [ghost EXCEPT !.lastGet =
                     [ session |-> sessionId, status |-> state.status,
                       currentStep |-> SessionCurrentStep(state),
                       completed |-> Len(state.completedSteps),
                       seq |-> 1 - @.seq ]]
      /\ UNCHANGED <<worker, inbox, tasks, outbox, globals, hook>>

\* mockCaptureStep(sessionId, stepId, imageData, detectedScore)
ClientCaptureStep(sessionId, stepId, detectedScore) ==
  LET sessions == GetSessionState(ui.server, sessionId)
      state == sessions[sessionId]
  IN  /\ ui' = [ui EXCEPT !.server =
                  [sessions EXCEPT
                     ![sessionId] = MockCaptureStep(state, stepId, detectedScore)]]
      /\ ghost' = [ghost EXCEPT !.lastCall =
                     [ session |-> sessionId, stepId |-> stepId,
                       outcome |-> CaptureOutcome(state, stepId),
                       nextStep |->
                         IF CaptureOutcome(state, stepId) # "success" THEN -1
                         ELSE SessionCurrentStep(
                                MockCaptureStep(state, stepId, detectedScore)),
                       seq |-> 1 - @.seq ]]
      /\ UNCHANGED <<worker, inbox, tasks, outbox, globals, hook>>

NextSession ==
  \/ \E sessionId \in SessionIds : ClientGetSession(sessionId)
  \/ \E sessionId \in SessionIds, stepId \in StepIds \cup {UnknownStep},
         detectedScore \in SessionScores :
       ClientCaptureStep(sessionId, stepId, detectedScore)

SpecSession == InitExec /\ [][NextSession]_vars

(***************************************************************************)
(* The inspection store's actions, applied to the event context m.         *)
(***************************************************************************)
SetPhase(m, phase) == [m EXCEPT !.ui.store.phase = phase]

\* setError(message)
SetError(m) == [m EXCEPT !.ui.store.error = TRUE, !.ui.store.phase = "error"]

SetCurrentStep(m, step) == [m EXCEPT !.ui.store.step = step]

\* state.currentStep?.countdownSeconds || 3
StoreCountdownSeconds(step) ==
  IF step = 0 \/ StepConfigs[step].countdownSeconds = 0 THEN 3
  ELSE StepConfigs[step].countdownSeconds

\* An updateDetection that starts the countdown from any phase.
UpdateDetection_AnyPhase(m, score, threshold) ==
  LET now == m.ui.now + m.env.skew
      state == m.ui.store
      detected == ScoreGEThreshold(score, threshold)
      startTime == IF state.sustainedDetectionStart \in {Null, 0} THEN now
                   ELSE state.sustainedDetectionStart
      elapsed == now - startTime
  IN  IF detected /\ ~state.isDetected
      THEN [m EXCEPT !.ui.store =
              [state EXCEPT !.currentScore = score, !.isDetected = TRUE,
                            !.sustainedDetectionStart = now]]
      ELSE IF detected
      THEN [m EXCEPT !.ui.store =
              IF elapsed >= SUSTAINED_DETECTION_MS
              THEN [state EXCEPT !.currentScore = score, !.phase = "countdown",
                                 !.countdownValue = StoreCountdownSeconds(state.step)]
              ELSE [state EXCEPT !.currentScore = score]]
      ELSE [m EXCEPT !.ui.store =
              [state EXCEPT !.currentScore = score, !.isDetected = FALSE,
                            !.sustainedDetectionStart = Null,
                            !.phase = IF state.phase = "countdown"
                                      THEN "detecting" ELSE @]]

\* updateDetection(score, threshold); the store reads the clock itself.
UpdateDetection(m, score, threshold) ==
  LET now == m.ui.now + m.env.skew
      state == m.ui.store
      detected == ScoreGEThreshold(score, threshold)
      startTime == IF state.sustainedDetectionStart \in {Null, 0} THEN now
                   ELSE state.sustainedDetectionStart
      elapsed == now - startTime
  IN  IF detected /\ ~state.isDetected
      THEN [m EXCEPT !.ui.store =
              [state EXCEPT !.currentScore = score, !.isDetected = TRUE,
                            !.sustainedDetectionStart = now]]
      ELSE IF detected
      THEN [m EXCEPT !.ui.store =
              IF elapsed >= SUSTAINED_DETECTION_MS /\ state.phase = "detecting"
              THEN [state EXCEPT !.currentScore = score, !.phase = "countdown",
                                 !.countdownValue = StoreCountdownSeconds(state.step)]
              ELSE [state EXCEPT !.currentScore = score]]
      ELSE [m EXCEPT !.ui.store =
              [state EXCEPT !.currentScore = score, !.isDetected = FALSE,
                            !.sustainedDetectionStart = Null,
                            !.phase = IF state.phase = "countdown"
                                      THEN "detecting" ELSE @]]

\* A resetDetection that leaves sustainedDetectionStart as it is.
ResetDetection_KeepsStart(m) ==
  [m EXCEPT !.ui.store.currentScore = ScoreZero,
            !.ui.store.isDetected = FALSE]

ResetDetection(m) ==
  [m EXCEPT !.ui.store.currentScore = ScoreZero,
            !.ui.store.isDetected = FALSE,
            !.ui.store.sustainedDetectionStart = Null]

\* setSession(session), session being mockGetSession's response
SetSession(m) ==
  LET sessions == GetSessionState(m.ui.server, PageSession)
      session == sessions[PageSession]
  IN  [m EXCEPT !.ui.server = sessions,
                !.ui.store.session = session.status,
                !.ui.store.step = SessionCurrentStep(session),
                !.ui.store.phase = IF session.status = "completed"
                                   THEN "complete" ELSE "model-loading"]

(***************************************************************************)
(* InspectionCamera with useCountdown and useFrameCapture, and the part of *)
(* InspectionPage that renders it.  r is the render whose closures run: an *)
(* effect reads props and state from r, refs and the store from m.         *)
(***************************************************************************)
\* InspectionPage renders the camera: no error view, no loading view.
Rendered(m) ==
  /\ m.ui.route = "inspect"
  /\ ~m.ui.store.error
  /\ m.ui.store.phase \notin {"loading", "error"}
  /\ m.ui.store.step # 0

\* What a render sees.
Snapshot(m) ==
  [ shown |-> Rendered(m),
    detection |-> m.hook[1].detection,
    phase |-> m.ui.store.phase,
    step |-> m.ui.store.step,
    isReady |-> m.hook[1].isReady,
    isLoading |-> m.hook[1].isLoading,
    webcamReady |-> m.ui.cam.webcamReady,
    capturedScore |-> m.ui.cam.capturedScore,
    isActive |-> m.ui.cd.isActive,
    value |-> m.ui.cd.value ]

\* useCountdown: start and cancel
StartCountdown(m, initialValue) ==
  [m EXCEPT !.ui.cd.value = initialValue, !.ui.cd.isActive = TRUE,
            !.ui.cd.fired = <<>>]

\* History: callback cb of useCountdown was invoked.
Fired(fired, cb) == IF Len(fired) < MaxFired THEN Append(fired, cb) ELSE fired

HandleCountdownCancel(m) ==
  [m EXCEPT !.ui.cam.sustainedStartRef = Null,
            !.ui.cd.fired = Fired(@, "cancel")]

CancelCountdown(m, initialValue) ==
  HandleCountdownCancel(
    [m EXCEPT !.ui.cd = [ClearInterval(@) EXCEPT !.value = initialValue,
                                                 !.isActive = FALSE]])

\* InspectionPage.handleCaptureComplete up to its await of captureStep
HandleCaptureComplete(m, r) ==
  IF r.step = 0 THEN m
  ELSE [SetPhase(m, "uploading") EXCEPT
          !.ui.uploads = Append(@, [step |-> r.step, score |-> r.capturedScore])]

\* A completion that hands the capture off without checking for an image.
HandleCountdownComplete_NoImageCheck(m, r) ==
  HandleCaptureComplete(
    SetPhase([m EXCEPT !.ui.lastCapture =
                [ from |-> m.ui.store.phase, value |-> r.value,
                  ok |-> m.env.captureOk, seq |-> 1 - @.seq ],
                       !.ui.cd.fired = Fired(@, "complete")],
             "capturing"), r)

HandleCountdownComplete(m, r) ==
  LET m0 == [m EXCEPT !.ui.lastCapture =
               [ from |-> m.ui.store.phase, value |-> r.value,
                 ok |-> m.env.captureOk, seq |-> 1 - @.seq ],
                      !.ui.cd.fired = Fired(@, "complete")]
  IN  IF m.env.captureOk
      THEN HandleCaptureComplete(SetPhase(m0, "capturing"), r)
      ELSE SetPhase(SetPhase(m0, "capturing"), "detecting")

\* useObjectDetection re-rendered with the props of another step
HookPropsEffect(p, r, m) ==
  IF r.step = p.step THEN m ELSE RerenderHook(m, 1, r.step)

\* A countdown effect whose last run is not cleaned up before its body runs.
CountdownEffect_NoCleanup(p, r, m) ==
  IF r.isActive = p.isActive /\ r.value = p.value THEN m
  ELSE IF r.isActive /\ r.value > 0 THEN [m EXCEPT !.ui.cd = SetInterval(@)]
  ELSE IF r.value = 0 /\ r.isActive
  THEN HandleCountdownComplete([m EXCEPT !.ui.cd.isActive = FALSE], r)
  ELSE m

\* A countdown effect that completes one tick early.
CountdownEffect_CompletesAtOne(p, r, m) ==
  IF r.isActive = p.isActive /\ r.value = p.value THEN m
  ELSE LET m0 == [m EXCEPT !.ui.cd = ClearInterval(@)]
       IN  IF r.isActive /\ r.value > 1 THEN [m0 EXCEPT !.ui.cd = SetInterval(@)]
           ELSE IF r.value <= 1 /\ r.isActive
           THEN HandleCountdownComplete([m0 EXCEPT !.ui.cd.isActive = FALSE], r)
           ELSE m0

\* useCountdown's "Countdown logic" effect: cleanup of its last run, body.
CountdownEffect(p, r, m) ==
  IF r.isActive = p.isActive /\ r.value = p.value THEN m
  ELSE LET m0 == [m EXCEPT !.ui.cd = ClearInterval(@)]
       IN  IF r.isActive /\ r.value > 0 THEN [m0 EXCEPT !.ui.cd = SetInterval(@)]
           ELSE IF r.value = 0 /\ r.isActive
           THEN HandleCountdownComplete([m0 EXCEPT !.ui.cd.isActive = FALSE], r)
           ELSE m0

\* A frame capture that is enabled in every phase.
FrameCaptureEnabled_AnyPhase(r) == r.isReady /\ r.webcamReady

\* enabled: isReady && webcamReady && phase === 'detecting'
FrameCaptureEnabled(r) == r.isReady /\ r.webcamReady /\ r.phase = "detecting"

\* useFrameCapture's interval effect: a first frame at once, then the timer.
FrameCaptureEffect(p, r, m) ==
  IF FrameCaptureEnabled(r) = FrameCaptureEnabled(p) /\ r.isReady = p.isReady
  THEN m
  ELSE IF FrameCaptureEnabled(r)
  THEN [ClassifyCall(m, 1, m.env.frame) EXCEPT !.ui.frameTimer = TRUE]
  ELSE [m EXCEPT !.ui.frameTimer = FALSE]

\* A model ready effect that calls onModelReady as soon as the load is over.
ModelReadyEffect_OnLoaded(p, r, m) ==
  IF r.isLoading = p.isLoading THEN m
  ELSE IF ~r.isLoading THEN SetPhase(m, "detecting")
  ELSE m

\* "Handle model ready": onModelReady is InspectionPage.handleModelReady.
ModelReadyEffect(p, r, m) ==
  IF r.isReady = p.isReady /\ r.isLoading = p.isLoading THEN m
  ELSE IF r.isReady /\ ~r.isLoading THEN SetPhase(m, "detecting")
  ELSE m

\* 2 * elapsed >= SUSTAINED_DETECTION_MS
SustainedReached_Half(elapsed) == 2 * elapsed >= SUSTAINED_DETECTION_MS

\* elapsed > SUSTAINED_DETECTION_MS
SustainedReached_Strict(elapsed) == elapsed > SUSTAINED_DETECTION_MS

\* elapsed >= SUSTAINED_DETECTION_MS
SustainedReached(elapsed) == elapsed >= SUSTAINED_DETECTION_MS

\* "Handle detection results"
DetectionResultEffect(p, r, m, detectionChanged) ==
  IF ~detectionChanged /\ r.phase = p.phase /\ r.step = p.step THEN m
  ELSE IF r.detection.type = "none" \/ r.phase # "detecting" THEN m
  ELSE LET now == m.ui.now
           cfg == StepConfigs[r.step]
           score == r.detection.targetScore
       IN  IF r.detection.isDetected
           THEN LET start == IF m.ui.cam.sustainedStartRef = Null THEN now
                             ELSE m.ui.cam.sustainedStartRef
                    elapsed == now - start
                    m1 == UpdateDetection(
                            [m EXCEPT !.ui.cam.sustainedStartRef = start],
                            score, cfg.threshold)
                IN  IF SustainedReached(elapsed)
                    THEN StartCountdown(
                           SetPhase([m1 EXCEPT !.ui.cam.capturedScore = score],
                                    "countdown"),
                           cfg.countdownSeconds)
                    ELSE m1
           ELSE UpdateDetection([m EXCEPT !.ui.cam.sustainedStartRef = Null],
                                score, cfg.threshold)

\* "Cancel countdown if detection lost"
CancelEffect(p, r, m, detectionChanged) ==
  IF ~detectionChanged /\ r.isActive = p.isActive /\ r.step = p.step THEN m
  ELSE IF r.isActive /\ r.detection.type # "none" /\ ~r.detection.isDetected
  THEN [SetPhase(CancelCountdown(m, StepConfigs[r.step].countdownSeconds),
                 "detecting")
          EXCEPT !.ui.cam.sustainedStartRef = Null]
  ELSE m

\* The camera leaves the page: every cleanup runs, state and refs are lost.
CameraUnmount(m) ==
  UnmountHook([m EXCEPT !.ui.cam = CameraInit,
                        !.ui.cd = [CountdownInit(0) EXCEPT
                                     !.live = ClearInterval(m.ui.cd).live],
                        !.ui.frameTimer = FALSE], 1)

\* The camera's first render and first effects.
CameraMount(m, r) ==
  MountHook([m EXCEPT !.ui.cam = [CameraInit EXCEPT !.mounted = TRUE],
                      !.ui.cd = [CountdownInit(StepConfigs[r.step].countdownSeconds)
                                   EXCEPT !.live = m.ui.cd.live]],
            1, r.step)

\* The effects of render r, p being the render before it, in the order the
\* hooks are called.
CommitRender(p, r, m, detectionChanged) ==
  IF ~r.shown THEN (IF p.shown THEN CameraUnmount(m) ELSE m)
  ELSE IF ~p.shown THEN CameraMount(m, r)
  ELSE CancelEffect(p, r,
         DetectionResultEffect(p, r,
           ModelReadyEffect(p, r,
             FrameCaptureEffect(p, r,
               CountdownEffect(p, r,
                 HookPropsEffect(p, r, m)))),
           detectionChanged),
         detectionChanged)

RECURSIVE Settle(_, _, _)
\* Renders and effects until a render changes nothing any more.
Settle(p, m, detectionChanged) ==
  LET r == Snapshot(m)
  IN  IF r = p /\ ~detectionChanged THEN m
      ELSE Settle(r, CommitRender(p, r, m, detectionChanged), FALSE)

(***************************************************************************)
(* Main-thread events of the page.                                         *)
(***************************************************************************)
\* The frames the webcam shows, for the first step's labels and threshold:
\* the target alone (detected), a negative ahead of the target with the
\* target still above the threshold, the target below the threshold, a
\* frame whose classification throws and one whose embedding has zero norm.
Hit == [kind |-> "ok", sim |-> [l \in Labels |-> IF l = "radiator" THEN 1 ELSE 0]]

Near == [kind |-> "ok", sim |-> [l \in Labels |-> IF l = "door" THEN 1 ELSE 0]]

Miss == [kind |-> "ok", sim |-> [l \in Labels |-> IF l = "radiator" THEN 0 ELSE 1]]

PageFrames ==
  {Hit, Near, Miss}
    \cup { f \in BadFrames : f.kind \in {"decodeError", "zeroNorm"} }

Envs == [frame : PageFrames, captureOk : BOOLEAN, skew : 0..MaxSkew]

ClockSteps == {500, 999}

\* The run of detected frames after a detection was delivered in state ui
\* and handled with outcome m.
RunAfter(m) ==
  LET now == ui.now
      run == ui.run
      started == m.ui.cd.isActive /\ ~ui.cd.isActive
      phase == m.ui.store.phase
      spaced == run.len = 1 \/ now - run.last = run.dt
  IN  IF ui.store.phase # "detecting" THEN RunNone
      ELSE IF ~m.msg.isDetected
      THEN IF run.len >= 1 /\ run.clean /\ run.uniform /\ spaced
                /\ run.phase = "detecting"
           THEN [RunNone EXCEPT !.ended = run.len, !.dt = now - run.last]
           ELSE RunNone
      ELSE IF run.len = 0 \/ run.phase # "detecting"
      THEN [ len |-> 1, first |-> now, last |-> now, dt |-> 0, uniform |-> TRUE,
             clean |-> /\ ui.cam.sustainedStartRef = Null
                       /\ ~ui.store.isDetected
                       /\ ui.store.sustainedDetectionStart = Null,
             started |-> started, phase |-> phase, ended |-> 0 ]
      ELSE IF run.len = MaxRun
      THEN [run EXCEPT !.last = now, !.uniform = FALSE,
                       !.started = started, !.phase = phase]
      ELSE [ len |-> run.len + 1, first |-> run.first, last |-> now,
             dt |-> IF run.len = 1 THEN now - run.last ELSE run.dt,
             uniform |-> run.uniform /\ spaced,
             clean |-> run.clean, started |-> started, phase |-> phase,
             ended |-> 0 ]

\* History after a message of the worker was handled.
HistoryAfterMessage(m) ==
  IF ~m.newDetection THEN m
  ELSE LET run == RunAfter(m)
       IN  [m EXCEPT
              !.ui.run = run,
              !.ui.shortRuns =
                @ /\ (run.len = 0
                        \/ run.last - run.first + MaxSkew < SUSTAINED_DETECTION_MS)]

\* The event's outcome becomes the state.
CommitPage(m) ==
  /\ CommitHooks(m)
  /\ Len(m.ui.uploads) <= MaxQueue
  /\ ui' = m.ui
  /\ ghost' = GhostOf(m)

\* getSession resolved: an active session on its first step.
SessionLoaded ==
  /\ ui.store.phase = "loading"
  /\ LET m == [Main EXCEPT !.env = NoEnv]
     IN  CommitPage(Settle(Snapshot(m), SetSession(m), FALSE))
  /\ UNCHANGED <<worker, tasks, outbox>>

\* The main thread dispatches the next message of the worker; tick names a
\* timer callback that runs before React renders the handler's update.
PageDeliver(env, tick) ==
  /\ outbox # <<>>
  /\ tick = "frame" => ui.frameTimer
  /\ tick = "countdown" => ui.cd.timer
  /\ LET m0 == [Main EXCEPT !.msg = Head(outbox), !.env = env]
         m1 == HooksOnMessage(m0)
         m2 == IF tick = "frame" THEN ClassifyCall(m1, 1, env.frame)
               ELSE IF tick = "countdown" THEN [m1 EXCEPT !.ui.cd.value = @ - 1]
               ELSE m1
     IN  CommitPage(HistoryAfterMessage(Settle(Snapshot(m0), m2, m2.newDetection)))
  /\ outbox' = Tail(outbox)
  /\ UNCHANGED <<worker, tasks>>

\* onUserMedia of the webcam
WebcamReady(env) ==
  /\ ui.cam.mounted
  /\ ~ui.cam.webcamReady
  /\ ~ui.cam.webcamError
  /\ LET m == [Main EXCEPT !.env = env]
     IN  CommitPage(Settle(Snapshot(m), [m EXCEPT !.ui.cam.webcamReady = TRUE], FALSE))
  /\ UNCHANGED <<worker, tasks, outbox>>

\* onUserMediaError of the webcam: the camera could not be opened.  The
\* camera shows its error view instead of the webcam; its hooks keep running.
WebcamError ==
  /\ ui.cam.mounted
  /\ ~ui.cam.webcamReady
  /\ ~ui.cam.webcamError
  /\ CommitPage([Main EXCEPT !.ui.cam.webcamError = TRUE])
  /\ UNCHANGED <<worker, tasks, outbox>>

\* useFrameCapture's interval fires: captureFrame, onFrame = classify.
FrameTick(env) ==
  /\ ui.frameTimer
  /\ CommitPage(ClassifyCall([Main EXCEPT !.env = env], 1, env.frame))
  /\ UNCHANGED <<worker, tasks, outbox>>

\* useCountdown's interval fires: setValue(v => v - 1).
CountdownTick(env) ==
  /\ ui.cd.timer
  /\ LET m == [Main EXCEPT !.env = env]
         m1 == Settle(Snapshot(m), [m EXCEPT !.ui.cd.value = @ - 1], FALSE)
     IN  CommitPage([m1 EXCEPT !.ui.run = RunNone])
  /\ UNCHANGED <<worker, tasks, outbox>>

\* handleCaptureComplete after its await: the backend accepted the capture of
\* its current step (ok), or the call failed.
UploadDone(ok, env) ==
  /\ ui.uploads # <<>>
  /\ LET upload == Head(ui.uploads)
         sessions == GetSessionState(ui.server, PageSession)
         session == sessions[PageSession]
         accepted == ok /\ CaptureOutcome(session, upload.step) = "success"
         after == MockCaptureStep(session, upload.step, upload.score)
         nextStep == SessionCurrentStep(after)
         m == [Main EXCEPT !.env = env, !.ui.uploads = Tail(@),
                           !.ui.run = RunNone,
                           !.ui.server = IF ok
                                         THEN [sessions EXCEPT ![PageSession] = after]
                                         ELSE @]
         m1 == IF ~accepted THEN SetError(m)
               ELSE IF nextStep # 0
               THEN ResetDetection(
                      SetPhase(SetCurrentStep(m, nextStep), "detecting"))
               ELSE [m EXCEPT !.ui.route = "complete"]
     IN  CommitPage(Settle(Snapshot(Main), m1, FALSE))
  /\ UNCHANGED <<worker, tasks, outbox>>

\* Time passes.
Tick(d) ==
  /\ ui.now + d <= MaxTime
  /\ ui' = [ui EXCEPT !.now = @ + d]
  /\ UNCHANGED <<worker, inbox, tasks, outbox, globals, hook, ghost>>

(***************************************************************************)
(* SpecStore: the inspection store on its own, for a client that calls its *)
(* actions in any order.                                                   *)
(***************************************************************************)
Phases ==
  {"loading", "model-loading", "detecting", "countdown", "capturing",
   "uploading", "complete", "error"}

\* Scores given to updateDetection; the thresholds are those of the steps.
StoreScores == {ScoreZero, <<1, 4>>, <<2, 4>>}

\* setSessionId(sessionId)
SetSessionId(m, sessionId) == [m EXCEPT !.ui.store.sessionId = sessionId]

\* reset()
Reset(m) == [m EXCEPT !.ui.store = StoreInit]

\* The client calls updateDetection(score, threshold).
StoreUpdateDetection ==
  /\ \E score \in StoreScores, step \in StepIds, skew \in 0..MaxSkew :
       ui' = UpdateDetection([Main EXCEPT !.env.skew = skew],
                             score, StepConfigs[step].threshold).ui
  /\ UNCHANGED <<worker, inbox, tasks, outbox, globals, hook, ghost>>

InitStore ==
  /\ worker = WorkerInit
  /\ inbox = <<>>
  /\ tasks = <<>>
  /\ outbox = <<>>
  /\ globals = GlobalsInit
  /\ hook = [h \in Hooks |-> HookUnmounted]
  /\ ghost = GhostInit
  /\ ui = [UiInit EXCEPT !.store = StoreInit]

\* The client calls setSessionId, setSession, setPhase, setError,
\* setCurrentStep, updateDetection, resetDetection or reset, or time passes.
NextStore ==
  \/ /\ ui' = SetSessionId(Main, PageSession).ui
     /\ UNCHANGED <<worker, inbox, tasks, outbox, globals, hook, ghost>>
  \/ /\ ui' = SetSession(Main).ui
     /\ UNCHANGED <<worker, inbox, tasks, outbox, globals, hook, ghost>>
  \/ /\ \E phase \in Phases : ui' = SetPhase(Main, phase).ui
     /\ UNCHANGED <<worker, inbox, tasks, outbox, globals, hook, ghost>>
  \/ /\ ui' = SetError(Main).ui
     /\ UNCHANGED <<worker, inbox, tasks, outbox, globals, hook, ghost>>
  \/ /\ \E step \in StepIds : ui' = SetCurrentStep(Main, step).ui
     /\ UNCHANGED <<worker, inbox, tasks, outbox, globals, hook, ghost>>
  \/ StoreUpdateDetection
  \/ /\ ui' = ResetDetection(Main).ui
     /\ UNCHANGED <<worker, inbox, tasks, outbox, globals, hook, ghost>>
  \/ /\ ui' = Reset(Main).ui
     /\ UNCHANGED <<worker, inbox, tasks, outbox, globals, hook, ghost>>
  \/ \E d \in ClockSteps : Tick(d)

SpecStore == InitStore /\ [][NextStore]_vars

(***************************************************************************)
(* SpecCountdown: useCountdown on its own, with InspectionCamera's          *)
(* callbacks, for a client that calls start and cancel at any time and     *)
(* never changes initialValue.                                             *)
(***************************************************************************)
RECURSIVE CountdownSettle(_, _)
\* Renders and runs of the countdown effect until a render changes nothing.
CountdownSettle(p, m) ==
  LET r == Snapshot(m)
  IN  IF r = p THEN m ELSE CountdownSettle(r, CountdownEffect(p, r, m))

\* The client calls start().
CountdownStart ==
  /\ \E env \in Envs :
       LET m == [Main EXCEPT !.env = env]
       IN  CommitPage(CountdownSettle(Snapshot(m),
                                      StartCountdown(m, ui.cd.initial)))
  /\ UNCHANGED <<worker, tasks, outbox>>

\* The interval set by the effect fires: setValue(v => v - 1).
CountdownIntervalFires ==
  /\ ui.cd.timer
  /\ \E env \in Envs :
       LET m == [Main EXCEPT !.env = env]
       IN  CommitPage(CountdownSettle(Snapshot(m),
                                      [m EXCEPT !.ui.cd.value = @ - 1]))
  /\ UNCHANGED <<worker, tasks, outbox>>

\* The client calls cancel().
CountdownCancel ==
  /\ \E env \in Envs :
       LET m == [Main EXCEPT !.env = env]
       IN  CommitPage(CountdownSettle(Snapshot(m),
                                      CancelCountdown(m, ui.cd.initial)))
  /\ UNCHANGED <<worker, tasks, outbox>>

InitCountdown ==
  /\ worker = WorkerInit
  /\ inbox = <<>>
  /\ tasks = <<>>
  /\ outbox = <<>>
  /\ globals = GlobalsInit
  /\ hook = [h \in Hooks |-> HookUnmounted]
  /\ ghost = GhostInit
  /\ \E n \in 0..MaxCount : ui = [UiInit EXCEPT !.cd = CountdownInit(n)]

NextCountdown ==
  \/ CountdownStart
  \/ CountdownIntervalFires
  \/ CountdownCancel

SpecCountdown == InitCountdown /\ [][NextCountdown]_vars

(***************************************************************************)
(* SpecPage: the inspection page from its first render on.                 *)
(***************************************************************************)
NextPage ==
  \/ SessionLoaded
  \/ WorkerOnMessage
  \/ LoadSucceeds
  \/ LoadFails
  \/ \E i \in 1..Len(tasks) : ClassifyFinish(i)
  \/ \E env \in Envs, tick \in {"none", "frame", "countdown"} : PageDeliver(env, tick)
  \/ \E env \in Envs : WebcamReady(env)
  \/ WebcamError
  \/ \E env \in Envs : FrameTick(env)
  \/ \E env \in Envs : CountdownTick(env)
  \/ \E ok \in BOOLEAN, env \in Envs : UploadDone(ok, env)
  \/ \E d \in ClockSteps : Tick(d)

SpecPage == InitExec /\ [][NextPage]_vars

(***************************************************************************)
(* Claims about the similarity engine.                                     *)
(***************************************************************************)
\* The message a step has just appended to the outbox.
Posted == outbox'[Len(outbox')]

\* classify call i completes in detection mode on a frame it could embed.
DetectionStep(i) ==
  ClassifyFinish(i) /\ tasks[i].kind = "ok" /\ worker.detectionMode

\* Index 0 (here 1) has the maximum probability among all labels.
TargetIsMaximal(probs) == \A j \in 1..Len(probs) : ~ScoreGT(probs[j], probs[1])

\* The target and a negative label share the maximal probability.
TargetTiesForTop(probs) ==
  /\ TargetIsMaximal(probs)
  /\ \E j \in 2..Len(probs) : probs[j][1] * probs[1][2] = probs[1][1] * probs[j][2]

\* C4: for every frame classified in single-target mode, the posted
\* isDetected is (targetScore >= threshold) and (the target at index 0 has
\* the maximum probability among all labels); a targetScore equal to the
\* threshold counts as above it.
C4_DetectionRule ==
  [][\A i \in 1..Len(tasks) :
       DetectionStep(i) =>
         LET probs == ProbabilitiesOf(tasks[i], worker)
         IN  /\ Posted.type = "detection"
             /\ Posted.targetScore = probs[1]
             /\ Posted.isDetected <=>
                  ( /\ probs[1][1] * 100 >= worker.detectionThreshold * probs[1][2]
                    /\ TargetIsMaximal(probs) )]_vars

\* C4 witness: a detection was posted whose targetScore equals the threshold
\* exactly, with a competing negative label, and it counts as detected.
C4_Witness ==
  \E k \in 1..Len(outbox) :
    /\ outbox[k].type = "detection"
    /\ outbox[k].isDetected
    /\ Len(outbox[k].allScores) > 1
    /\ outbox[k].targetScore[1] * 100
         = worker.detectionThreshold * outbox[k].targetScore[2]

\* C5 as claimed: when the target and a negative label have equal maximal
\* probability, isDetected is false whatever the threshold.
C5_TieNotDetected ==
  [][\A i \in 1..Len(tasks) :
       (DetectionStep(i) /\ TargetTiesForTop(ProbabilitiesOf(tasks[i], worker)))
         => ~Posted.isDetected]_vars

\* C5 as the code has it: when the target and a negative label have equal
\* maximal probability, the target still counts as top-ranked (the stable
\* sort keeps index 0 first), so isDetected is targetScore >= threshold.
C5_TieDetectedIffAboveThreshold ==
  [][\A i \in 1..Len(tasks) :
       (DetectionStep(i) /\ TargetTiesForTop(ProbabilitiesOf(tasks[i], worker)))
         => LET probs == ProbabilitiesOf(tasks[i], worker)
            IN  /\ Posted.allScores[1].label = worker.targetLabel
                /\ Posted.isDetected <=>
                     probs[1][1] * 100 >= worker.detectionThreshold * probs[1][2]]_vars

\* C5 witness: a detection was posted in which the two best labels have the
\* same probability, the target among them, and it counts as detected.
C5_Witness ==
  \E k \in 1..Len(outbox) :
    /\ outbox[k].type = "detection"
    /\ outbox[k].isDetected
    /\ Len(outbox[k].allScores) > 1
    /\ outbox[k].allScores[1].score = outbox[k].allScores[2].score
    /\ outbox[k].allScores[1].label = outbox[k].targetLabel

(***************************************************************************)
(* Claims about the executor.                                              *)
(***************************************************************************)
\* classify requests the executor has received or is about to receive and
\* has not answered
ClassifyInFlight ==
  Len(SelectSeq(inbox, LAMBDA d : d.type = "classify")) + Len(tasks)

DetectionUnderway ==
  \/ ClassifyInFlight > 0
  \/ \E i \in 1..Len(outbox) : outbox[i].type = "detection"

\* C6: at most one classify request is in flight at the executor at any
\* time (a frame offered while one is outstanding is dropped).
C6_AtMostOneClassifyInFlight == ClassifyInFlight <= 1

\* C7: after a frame whose classification failed, the caller can submit the
\* next frame: once nothing is outstanding, no mounted instance still holds
\* its in-flight flag.
C7_FailedFrameRecoverable ==
  (ghost.frameFailed /\ ~DetectionUnderway)
    => \A h \in Hooks : hook[h].mounted => ~hook[h].inferringRef

\* The outcome of initialization as instance h shows it.
Outcome(h) ==
  IF hook[h].error THEN "error"
  ELSE IF hook[h].modelReady THEN "ready"
  ELSE "loading"

\* The instances that requested the initialization that settled last: the
\* one that started it and the late callers that awaited its promise.
Callers ==
  { h \in Hooks : hook[h].mounted /\ hook[h].gen = ghost.promises
                    /\ ghost.promises > 0 }

\* C8: two callers initializing before the first resolved share one model
\* load and end with the same outcome (both ready, or both error).
C8_ConcurrentInitSameOutcome ==
  /\ ghost.loadCount <= ghost.promises
  /\ globals.initPromise \in {"fulfilled", "rejected"}
       => \A h1, h2 \in Callers : Outcome(h1) = Outcome(h2)

\* C9: a model-load failure is terminal for the executor: once it reported
\* error it never reports ready, never starts another load, and the failure
\* is reported once.
C9_LoadFailureTerminal ==
  ghost.errorCount > 0
    => /\ ghost.loadCount = 1
       /\ ghost.errorCount = 1
       /\ ~worker.isInitialized
       /\ ~worker.isInitializing

\* C10: when the in-flight initialization fails, the caller that started it
\* and every late caller observe the error; none remains loading.
C10_ErrorSurfacedToAllWaiters ==
  globals.initPromise = "rejected"
    => \A h \in Callers : hook[h].error /\ ~hook[h].isLoading

\* Sanity: initPromise is never replaced while it is still pending.
NoPromiseOverlap == ~ghost.overlap


(***************************************************************************)
(* Claims about the detection state machine.                               *)
(***************************************************************************)
\* The run of detected frames the claims speak of: it began in phase
\* detecting with no sustaining timestamp, and its results arrived dt apart.
RegularRun == ui.run.len >= 1 /\ ui.run.clean /\ ui.run.uniform

\* Time between the first and the last frame of the run.
RunSpan == (ui.run.len - 1) * ui.run.dt

\* C1 as claimed: after k consecutive detected frames arriving dt apart, from
\* phase detecting with no sustaining timestamp, the machine has gone to
\* countdown iff k * dt >= sustainedMs.
C1_CountdownIffFramesTimesSpacing ==
  (RegularRun /\ ui.run.len >= 2)
    => (ui.run.phase = "countdown"
          <=> ui.run.len * ui.run.dt >= SUSTAINED_DETECTION_MS)

\* C1 as the code has it: the k-th frame of such a run starts the countdown
\* iff (k - 1) * dt >= sustainedMs, the time since the first frame of the
\* run; the phase is countdown whenever the countdown was started, and it is
\* never countdown before (k - 1) * dt is within the clock skew of
\* sustainedMs (the store reads the clock on its own).
C1_CountdownIffSpanReached ==
  RegularRun
    => /\ ui.run.started <=> RunSpan >= SUSTAINED_DETECTION_MS
       /\ ui.run.started => ui.run.phase = "countdown"
       /\ ui.run.phase = "countdown"
            => RunSpan + MaxSkew >= SUSTAINED_DETECTION_MS

\* C1 witness: the third of three detected frames arriving 500 ms apart has
\* just started the countdown.
C1_Witness ==
  /\ RegularRun
  /\ ui.run.len = 3
  /\ ui.run.dt * 2 = SUSTAINED_DETECTION_MS
  /\ ui.run.started
  /\ ui.store.phase = "countdown"
  /\ ui.cd.isActive

\* C2: as long as every run of consecutive detected frames has spanned less
\* than sustainedMs, the machine never leaves detecting.
C2_ShortRunsStayDetecting ==
  ui.shortRuns => ui.store.phase \in {"loading", "model-loading", "detecting"}

\* A detection result with isDetected = false is delivered to the camera
\* while the countdown is running.
LostDuringCountdown ==
  /\ outbox # <<>>
  /\ Head(outbox).type = "detection"
  /\ ~Head(outbox).isDetected
  /\ outbox' = Tail(outbox)
  /\ hook[1].hDet
  /\ ui.cd.isActive

\* C3: whenever a detection result with isDetected = false is delivered
\* while the countdown is running, the countdown is cancelled (inactive, no
\* timer), the phase is detecting again, and no capture is handed off.
C3_LostDetectionCancelsCountdown ==
  [][LostDuringCountdown
       => /\ ~ui'.cd.isActive
          /\ ~ui'.cd.timer
          /\ ui'.store.phase = "detecting"
          /\ ui'.uploads = ui.uploads]_vars

\* handleCaptureComplete received a next step: the store's step advances.
StepAdvance == ui.store.step # 0 /\ ui'.store.step = ui.store.step + 1

\* C11: when an upload succeeds with a next step, the detection state of the
\* previous step is discarded: the new step starts in phase detecting with
\* no sustaining timestamp (camera and store) and no countdown running.
C11_StepAdvanceResetsDetection ==
  [][StepAdvance
       => /\ ui'.store.phase = "detecting"
          /\ ui'.cam.sustainedStartRef = Null
          /\ ui'.store.sustainedDetectionStart = Null
          /\ ~ui'.cd.isActive]_vars

\* A countdown has completed in this step: handleCountdownComplete ran.
CountdownCompletes == ui'.lastCapture # ui.lastCapture

\* A capture was handed to InspectionPage.handleCaptureComplete in this step.
CaptureHandedOff == Len(ui'.uploads) > Len(ui.uploads)

\* The countdown is started in this step (again, if it has just completed).
CountdownStarts == ui'.cd.isActive /\ (~ui.cd.isActive \/ CountdownCompletes)

\* C12: phase capturing is entered only from phase countdown and only when
\* the counter has reached 0; a capture is handed off only then and only
\* with an image, and it carries the score recorded when the countdown was
\* started, which is the targetScore of the detected frame that completed
\* the sustained detection.
C12_CaptureOnlyAtCountdownZero ==
  [][/\ CountdownCompletes
          => /\ ui.cd.isActive
             /\ ui'.lastCapture.from = "countdown"
             /\ ui'.lastCapture.value = 0
     /\ CaptureHandedOff
          => /\ CountdownCompletes
             /\ ui'.lastCapture.ok
             /\ ui'.uploads[Len(ui'.uploads)].score = ui.cam.capturedScore
             /\ ui'.uploads[Len(ui'.uploads)].step = ui.store.step
     /\ CountdownStarts
          => /\ hook'[1].detection.isDetected
             /\ ui'.cam.capturedScore = hook'[1].detection.targetScore
     /\ (ui.cd.isActive /\ ui'.cam.mounted /\ ~CountdownStarts)
          => ui'.cam.capturedScore = ui.cam.capturedScore]_vars

\* C12 witness: the countdown of a step has reached 0 in phase countdown and
\* the capture is awaiting its upload with the recorded score.
C12_Witness ==
  /\ ui.lastCapture.ok
  /\ ui.lastCapture.from = "countdown"
  /\ ui.lastCapture.value = 0
  /\ ui.store.phase = "uploading"
  /\ Len(ui.uploads) = 1
  /\ ui.uploads[1].score = ui.cam.capturedScore
  /\ ui.uploads[1].score # ScoreZero

\* A countdown has completed in this step and the full-resolution capture
\* returned no image.
CaptureFails == CountdownCompletes /\ ~ui'.lastCapture.ok

\* C13: when the capture returns no image at countdown completion, no
\* capture is handed off, no error is set and the machine is in phase
\* detecting again, with no countdown running.
C13_CaptureFailureFallsBackToDetecting ==
  [][CaptureFails
       => /\ ui'.uploads = ui.uploads
          /\ ~ui'.store.error
          /\ ui'.store.phase = "detecting"
          /\ ~ui'.cd.isActive]_vars

PostsProgress == Len(outbox') > Len(outbox) /\ Posted.type = "progress"

\* C15: every init request the worker has handled is either still loading
\* or has been answered by exactly one terminal message, ready or error;
\* progress messages are posted only for a request not yet answered.
C15_InitAnsweredExactlyOnce ==
  [][/\ ghost'.readyCount + ghost'.errorCount
          + (IF worker'.isInitializing THEN 1 ELSE 0) = ghost'.inits
     /\ PostsProgress => worker.isInitializing /\ worker'.isInitializing]_vars

\* C15 witness: a first init was answered by error, a second init by
\* progress followed by ready.
C15_Witness ==
  /\ ghost.inits = 2
  /\ ghost.errorCount = 1
  /\ ghost.readyCount = 1
  /\ ~worker.isInitializing
  /\ Len(outbox) = 2
  /\ outbox[1].type = "progress"
  /\ outbox[2].type = "ready"

\* classify call i ends on a frame whose classification failed or whose
\* embedding has zero norm.
BadFrameStep(i) == ClassifyFinish(i) /\ tasks[i].kind # "ok"

\* C16: a frame whose classification fails or whose embedding has zero norm
\* produces no message; the store, the camera's sustaining timestamp, the
\* countdown and the last detection result are unchanged.
C16_FailedFrameNoTransition ==
  [][\A i \in 1..Len(tasks) :
       BadFrameStep(i)
         => /\ outbox' = outbox
            /\ ui'.store = ui.store
            /\ ui'.cam = ui.cam
            /\ ui'.cd = ui.cd
            /\ hook'[1].detection = hook[1].detection]_vars

\* C16 witness: a frame failed while the machine was sustaining: the
\* sustaining timestamp and the detected result are still there, the phase
\* is detecting and nothing is outstanding.
C16_Witness ==
  /\ ghost.frameFailed
  /\ ui.store.phase = "detecting"
  /\ ui.cam.sustainedStartRef # Null
  /\ ui.store.sustainedDetectionStart # Null
  /\ hook[1].detection.isDetected
  /\ hook[1].inferringRef
  /\ inbox = <<>> /\ tasks = <<>> /\ outbox = <<>>

InError ==
  \/ ui.store.phase = "error"
  \/ ui.store.error
  \/ ui.cam.webcamError
  \/ hook[1].error

\* C18: once the machine is in error the phase does not change, no countdown
\* is running, no capture is handed off and no frame is sent to the worker.
C18_ErrorPhaseAbsorbing ==
  [][InError
       => /\ ui'.store.phase = ui.store.phase
          /\ ~ui'.cd.isActive
          /\ ui'.uploads = ui.uploads
          /\ Len(SelectSeq(inbox', LAMBDA d : d.type = "classify"))
               <= Len(SelectSeq(inbox, LAMBDA d : d.type = "classify"))]_vars

\* The worker handles an updateLabels request before it is initialized.
LabelsBeforeReady ==
  /\ inbox # <<>>
  /\ Head(inbox).type = "updateLabels"
  /\ ~worker.isInitialized
  /\ inbox' = Tail(inbox)

\* C19: an updateLabels request handled before the worker is ready is
\* rejected: the worker answers with a message other than labelsUpdated and
\* its label state is unchanged.
C19_LabelsBeforeReadyRejected ==
  [][LabelsBeforeReady
       => /\ worker' = worker
          /\ Len(outbox') = Len(outbox) + 1
          /\ Posted.type # "labelsUpdated"]_vars

\* The worker handles an updateLabels request in this step.
HandlesUpdateLabels ==
  /\ inbox # <<>>
  /\ Head(inbox).type = "updateLabels"
  /\ inbox' = Tail(inbox)

\* The worker posts labelsUpdated in this step.
PostsLabelsUpdated == Len(outbox') > Len(outbox) /\ Posted.type = "labelsUpdated"

SetupError(cfg) ==
  \/ cfg.dims[1] = 0
  \/ \E i \in 1..Len(cfg.dims) : cfg.dims[i] # cfg.dims[1]

\* The worker handles an updateLabels request whose label set cannot be set
\* up, while it holds the labels of an earlier request.
HandlesSetupError ==
  /\ inbox # <<>>
  /\ Head(inbox).type = "updateLabels"
  /\ SetupError(Head(inbox).cfg)
  /\ worker.detectionMode
  /\ inbox' = Tail(inbox)

\* C21: an updateLabels request whose label set cannot be set up (no
\* embedding, or an embedding whose length differs from the target's)
\* leaves the worker's label names, matrix, dimension, target, threshold
\* and mode as they were.
C21_SetupErrorLeavesStateUnchanged ==
  [][HandlesSetupError => worker' = worker]_vars

(***************************************************************************)
(* Claims about abandoned initialization.                                  *)
(***************************************************************************)
\* An instance unmounts in this step.
SomeUnmount == \E h \in Hooks : hook[h].mounted /\ ~hook'[h].mounted

\* The main thread dispatches a ready message of the worker in this step.
ReadyDelivered ==
  /\ outbox # <<>>
  /\ Head(outbox).type = "ready"
  /\ outbox' = Tail(outbox)

\* C22: an unmount, the starter's included, cancels nothing: the worker and
\* the messages on their way to it are untouched and the pending initPromise
\* stays pending; when the worker's ready is dispatched, every mounted
\* instance waiting on the promise becomes ready and stops loading, whether
\* or not the instance that started the load is still mounted.
C22_AbandonedInitStillServesWaiters ==
  [][/\ SomeUnmount
          => /\ worker' = worker
             /\ inbox' = inbox
             /\ outbox' = outbox
             /\ globals' = globals
     /\ ReadyDelivered
          => \A h \in Hooks :
               (hook[h].mounted /\ hook[h].awaiting)
                 => /\ hook'[h].modelReady
                    /\ ~hook'[h].isLoading
                    /\ ~hook'[h].awaiting]_vars

\* C22 witness: the instance that started the only load is gone, nobody
\* heard the ready message through handleInitMessage, and the late waiter
\* is ready all the same.
C22_Witness ==
  /\ ghost.abandoned
  /\ ~hook[1].mounted
  /\ hook[2].mounted
  /\ hook[2].modelReady
  /\ ~hook[2].isLoading
  /\ hook[2].gen = 1
  /\ ghost.promises = 1
  /\ ghost.loadCount = 1
  /\ ghost.readyCount = 1
  /\ globals.initPromise = "fulfilled"
  /\ ~globals.workerInitialized

(***************************************************************************)
(* Claims about a label set without negatives.                             *)
(***************************************************************************)
\* C23: when the label set last given to the worker has no negative labels,
\* every detection result has isDetected = (targetScore >= threshold): the
\* target is the only label and so the top match.
C23_NoNegativesThresholdOnly ==
  [][\A i \in 1..Len(tasks) :
       (DetectionStep(i) /\ ghost.lastLabels.negs = <<>>)
         => /\ Posted.type = "detection"
            /\ Len(Posted.allScores) = 1
            /\ Posted.allScores[1].label = worker.targetLabel
            /\ Posted.isDetected
                 <=> ScoreGEThreshold(Posted.targetScore, worker.detectionThreshold)]_vars

\* C23 witness: a frame was classified against the target alone: the
\* target's score is 1 and the frame counts as detected.
C23_Witness ==
  /\ ghost.lastLabels.negs = <<>>
  /\ ghost.lastLabels.target = "radiator"
  /\ \E k \in 1..Len(outbox) :
       /\ outbox[k].type = "detection"
       /\ outbox[k].isDetected
       /\ Len(outbox[k].allScores) = 1
       /\ outbox[k].targetScore = <<1, 1>>

(***************************************************************************)
(* Claims about a streak that is lost before it is sustained.              *)
(***************************************************************************)
\* The main thread dispatches a detection result to the camera's hook.
DetectionDelivered ==
  /\ outbox # <<>>
  /\ Head(outbox).type = "detection"
  /\ outbox' = Tail(outbox)
  /\ hook[1].hDet

\* The page in state u is sustaining: phase detecting with the time of the
\* streak's first frame held, no countdown running.
Sustaining(u) ==
  /\ u.store.phase = "detecting"
  /\ u.cam.sustainedStartRef # Null
  /\ ~u.cd.isActive

\* The page in state u is detecting with no streak.
NotSustaining(u) ==
  /\ u.store.phase = "detecting"
  /\ u.cam.sustainedStartRef = Null
  /\ u.store.sustainedDetectionStart = Null
  /\ ~u.store.isDetected
  /\ ~u.cd.isActive

HalfSustained == SUSTAINED_DETECTION_MS \div 2

\* C24: with results arriving half of sustainedMs apart, a detected frame
\* received while detecting with no streak starts sustaining; a second
\* detected frame keeps sustaining, from the first frame's time, and starts
\* no countdown; a third frame below the threshold resets the streak: the
\* page is detecting with no streak again.
C24_StreakLostBeforeSustained ==
  [][(DetectionDelivered /\ ui.cam.mounted /\ ui.store.phase = "detecting")
       => LET d == Head(outbox)
              threshold == StepConfigs[ui.store.step].threshold
          IN  /\ (d.isDetected /\ ui.run.len = 0 /\ NotSustaining(ui))
                   => /\ Sustaining(ui')
                      /\ ui'.cam.sustainedStartRef = ui.now
              /\ (d.isDetected /\ RegularRun /\ ui.run.len = 1
                     /\ ui.now - ui.run.last = HalfSustained)
                   => /\ Sustaining(ui')
                      /\ ui'.cam.sustainedStartRef = ui.run.first
                      /\ ui'.uploads = ui.uploads
              /\ (~d.isDetected /\ ~ScoreGEThreshold(d.targetScore, threshold)
                     /\ RegularRun /\ ui.run.len = 2
                     /\ ui.run.dt = HalfSustained
                     /\ ui.now - ui.run.last = HalfSustained)
                   => NotSustaining(ui')]_vars

\* C24 witness: a frame below the threshold has just ended a streak of two
\* detected frames, the three results half of sustainedMs apart; no
\* countdown has ever completed.
C24_Witness ==
  /\ ui.run.ended = 2
  /\ ui.run.dt = HalfSustained
  /\ NotSustaining(ui)
  /\ hook[1].detection.type = "detection"
  /\ ~hook[1].detection.isDetected
  /\ ~ScoreGEThreshold(hook[1].detection.targetScore,
                       StepConfigs[ui.store.step].threshold)
  /\ ui.lastCapture = CaptureNone

(***************************************************************************)
(* Claims about the session backend.                                       *)
(***************************************************************************)
\* A client's captureStep call is answered in this step.
CaptureCalled == ghost'.lastCall # ghost.lastCall

\* The state of the called session as the call found it.
SessionBefore ==
  IF ui.server[ghost'.lastCall.session] = NoSession THEN SessionCreated
  ELSE ui.server[ghost'.lastCall.session]

SessionAfter == ui'.server[ghost'.lastCall.session]

\* The stepId of the call is the current step of the session it is for.
ForCurrentStep == ghost'.lastCall.stepId = SessionBefore.currentStepIndex + 1

\* C25 as claimed: a capture succeeds only for the session's current step;
\* a capture for any other step fails with STEP_ALREADY_COMPLETED and
\* leaves currentStepIndex, completedSteps and status unchanged.
C25_CaptureOnlyCurrentStep ==
  [][CaptureCalled
       => /\ ghost'.lastCall.outcome = "success" => ForCurrentStep
          /\ ~ForCurrentStep
               => /\ ghost'.lastCall.outcome = "STEP_ALREADY_COMPLETED"
                  /\ SessionAfter = SessionBefore]_vars

\* C25 as the code has it: a capture succeeds exactly when the session is
\* active and the stepId is its current step; it then records the step and
\* advances.  Every other capture leaves currentStepIndex, completedSteps
\* and status unchanged; it fails with SESSION_EXPIRED when the session is
\* not active (it is completed), whatever the step, and with
\* STEP_ALREADY_COMPLETED only in an active session.  No other session is
\* touched.
C25_CaptureOnlyCurrentStepWhileActive ==
  [][CaptureCalled
       => LET call == ghost'.lastCall
              active == SessionBefore.status = "active"
          IN  /\ call.outcome = "success" <=> (active /\ ForCurrentStep)
              /\ call.outcome = "success"
                   => /\ SessionAfter.currentStepIndex
                           = SessionBefore.currentStepIndex + 1
                      /\ Len(SessionAfter.completedSteps)
                           = Len(SessionBefore.completedSteps) + 1
                      /\ SessionAfter.completedSteps[Len(SessionAfter.completedSteps)].stepId
                           = call.stepId
              /\ call.outcome # "success" => SessionAfter = SessionBefore
              /\ call.outcome = "SESSION_EXPIRED" <=> ~active
              /\ call.outcome = "STEP_ALREADY_COMPLETED"
                   <=> (active /\ ~ForCurrentStep)
              /\ \A id \in SessionIds \ {call.session} :
                   ui'.server[id] = ui.server[id]]_vars

\* C25 witness: every step of a session was captured and a further capture,
\* for its first step, was answered with SESSION_EXPIRED.
C25_Witness ==
  /\ ghost.lastCall.outcome = "SESSION_EXPIRED"
  /\ ghost.lastCall.stepId = 1
  /\ ui.server[ghost.lastCall.session].status = "completed"
  /\ ui.server[ghost.lastCall.session].currentStepIndex = Len(StepConfigs)
  /\ Len(ui.server[ghost.lastCall.session].completedSteps) = Len(StepConfigs)

(***************************************************************************)
(* Claims about the agreement of the detection rules.                      *)
(***************************************************************************)
\* C26: for every detection result the camera processes, the isDetected the
\* store's updateDetection computes from targetScore and the threshold is
\* the isDetected the worker reported for the frame.
C26_StoreAgreesWithWorker ==
  [][(DetectionDelivered /\ ui.cam.mounted /\ ui.store.phase = "detecting")
       => ui'.store.isDetected = Head(outbox).isDetected]_vars

(***************************************************************************)
(* Claims about the countdown phase.                                       *)
(***************************************************************************)
\* C27: whenever the phase is countdown the countdown is running: it is
\* active and its interval timer is set, so that its ticks lead to
\* capturing or its cancellation back to detecting.
C27_CountdownPhaseHasTimer ==
  ui.store.phase = "countdown" => (ui.cd.isActive /\ ui.cd.timer)

\* The phase is countdown and no countdown is running.
CountdownStalled ==
  ui.store.phase = "countdown" /\ ~ui.cd.isActive /\ ui.uploads = <<>>

\* Once the phase is countdown with no countdown running it stays so.
StalledCountdownStays ==
  [][CountdownStalled => (ui'.store.phase = "countdown" /\ ~ui'.cd.isActive)]_vars

\* The phase becomes countdown in this step (again, if a countdown has just
\* completed).
EntersCountdown ==
  /\ ui'.store.phase = "countdown"
  /\ ui.store.phase # "countdown" \/ CountdownCompletes

\* C28: the phase becomes countdown only when a detected frame is received
\* that extends a streak of detected frames, all received in the current
\* visit to detecting and since the last frame that was not detected, to
\* sustainedMs or more (less the skew between the component's and the
\* store's clock).
C28_CountdownJustifiedByCurrentStreak ==
  [][EntersCountdown
       => /\ DetectionDelivered
          /\ Head(outbox).isDetected
          /\ ui'.run.len >= 2
          /\ ui'.run.last - ui'.run.first + MaxSkew >= SUSTAINED_DETECTION_MS]_vars

(***************************************************************************)
(* Claims about the label set a classification uses.                       *)
(***************************************************************************)
\* The label state classify reads once the vision model has answered.
LabelSetUsed(w) ==
  [labelNames |-> w.labelNames,
   labelEmbeddingMatrix |-> w.labelEmbeddingMatrix,
   embeddingDim |-> w.embeddingDim,
   targetLabel |-> w.targetLabel,
   detectionThreshold |-> w.detectionThreshold]

\* The label state one updateLabels message with well-formed embeddings
\* describes: the target and its embedding first, then the negatives.
LabelSetOf(cfg) ==
  [labelNames |-> << cfg.target >> \o cfg.negs,
   labelEmbeddingMatrix |-> << cfg.target >> \o cfg.negs,
   embeddingDim |-> cfg.dims[1],
   targetLabel |-> cfg.target,
   detectionThreshold |-> cfg.threshold]

\* C29: for every detection result, the label names, embedding matrix,
\* dimension, target label and threshold classify reads are those of one
\* message, the last updateLabels request handled, and the result posted is
\* the one computed from that message's label set; this includes classify
\* calls that were suspended while the updateLabels request was handled.
C29_DetectionUsesOneLabelSet ==
  [][\A i \in 1..Len(tasks) :
       DetectionStep(i)
         => /\ LabelSetUsed(worker) = LabelSetOf(ghost.lastLabels)
            /\ Posted = DetectionOf(tasks[i], LabelSetOf(ghost.lastLabels))]_vars

\* C29 witness: the second step's updateLabels was handled while a classify
\* call was suspended, no classify call was accepted since, and after the
\* labelsUpdated that call posted its detection, computed for the second
\* step's target over its two labels.
C29_Witness ==
  /\ ghost.midFlight
  /\ ghost.lastLabels = StepConfigs[2]
  /\ tasks = <<>>
  /\ Len(outbox) = 2
  /\ outbox[1].type = "labelsUpdated"
  /\ outbox[2].type = "detection"
  /\ outbox[2].targetLabel = "meter"
  /\ Len(outbox[2].allScores) = 2

(***************************************************************************)
(* Claims about the first entry into phase detecting.                      *)
(***************************************************************************)
\* The store leaves loading or model-loading for detecting in this step.
FirstEntersDetecting ==
  /\ ui.store.phase \in {"loading", "model-loading"}
  /\ ui'.store.phase = "detecting"

\* C30: phase detecting is entered from loading or model-loading only in
\* the step that delivers a labelsUpdated to the hook, when the worker has
\* posted ready and is initialized and the last updateLabels request it
\* handled carries the labels of the store's current step; in every state
\* with phase detecting the worker has posted ready and handled an
\* updateLabels request.
C30_DetectingAfterReadyAndLabels ==
  /\ [][FirstEntersDetecting
          => /\ worker.isInitialized
             /\ ghost.readyCount >= 1
             /\ ui.store.step # 0
             /\ ghost.lastLabels = StepConfigs[ui.store.step]
             /\ outbox # <<>>
             /\ Head(outbox).type = "labelsUpdated"
             /\ ~hook[1].isLoading
             /\ hook'[1].isReady]_vars
  /\ [](ui.store.phase = "detecting"
          => ghost.readyCount >= 1 /\ ghost.lastLabels # NoConfig)

\* C30 witness: the page has just entered detecting for the first step: the
\* worker is ready, the first step's labels are acknowledged, and no frame
\* has been offered to classify yet.
C30_Witness ==
  /\ ui.store.phase = "detecting"
  /\ ui.store.step = 1
  /\ hook[1].isReady
  /\ ~hook[1].isLoading
  /\ worker.isInitialized
  /\ ghost.readyCount = 1
  /\ ghost.lastLabels = StepConfigs[1]
  /\ ui.sentIn.phase = "none"
  /\ outbox = <<>>

(***************************************************************************)
(* Claims about when frames are submitted.                                 *)
(***************************************************************************)
\* The main thread posts a classify request in this step.
SendsClassify ==
  /\ Len(inbox') > Len(inbox)
  /\ \E k \in (Len(inbox) + 1)..Len(inbox') : inbox'[k].type = "classify"

HandsOff == Len(ui'.uploads) > Len(ui.uploads)

\* handleCaptureComplete resumes after its await in this step.
UploadEnds == Len(ui'.uploads) < Len(ui.uploads)

\* The backend accepted the capture in this step.
UploadAccepted ==
  ui'.server[PageSession].currentStepIndex
    = ui.server[PageSession].currentStepIndex + 1

\* C32: once a capture is handed off the phase is uploading; when the
\* upload succeeds with a next step, the store's step is replaced by it and
\* the phase is detecting; when it succeeds with no next step the page goes
\* to the complete view; when it fails the phase is error and the step is
\* unchanged.
C32_UploadOutcomes ==
  [][/\ HandsOff => ui'.store.phase = "uploading"
     /\ (UploadEnds /\ UploadAccepted
           /\ ui'.server[PageSession].status = "active")
          => /\ ui'.store.step = ui.store.step + 1
             /\ ui'.store.phase = "detecting"
     /\ (UploadEnds /\ UploadAccepted
           /\ ui'.server[PageSession].status = "completed")
          => ui'.route = "complete"
     /\ (UploadEnds /\ ~UploadAccepted)
          => /\ ui'.store.phase = "error"
             /\ ui'.store.step = ui.store.step]_vars

(***************************************************************************)
(* Claims about the callbacks of a countdown.                              *)
(***************************************************************************)
\* C33: since start was last called, at most one callback was invoked:
\* onComplete once or onCancel once, never both and never one twice.
C33_OneCallbackPerStart == Len(ui.cd.fired) <= 1

(***************************************************************************)
(* Claims about the values of a countdown.                                 *)
(***************************************************************************)
\* onComplete is invoked in this step.
Completes == ui'.lastCapture.seq # ui.lastCapture.seq

\* C34: start sets the value to initialValue; the value only ever goes
\* down by a tick of the interval, by exactly 1, and stays within
\* 0..initialValue; the countdown completes exactly when its value reaches
\* 0: at the tick that takes it from 1 to 0, or within the call of start
\* when initialValue is 0, and at no other value.
C34_CountdownByOneToZero ==
  /\ [](ui.cd.value \in 0..ui.cd.initial)
  /\ [](ui.cd.isActive => ui.cd.value > 0 /\ ui.cd.timer)
  /\ [](ui.cd.timer => ui.cd.isActive)
  /\ [][CountdownStart
          => IF ui.cd.initial = 0
             THEN Completes /\ ~ui'.cd.isActive /\ ~ui'.cd.timer
             ELSE /\ ~Completes
                  /\ ui'.cd.isActive
                  /\ ui'.cd.value = ui.cd.initial]_vars
  /\ [][ui'.cd.value < ui.cd.value
          => /\ CountdownIntervalFires
             /\ ui'.cd.value = ui.cd.value - 1]_vars
  /\ [][CountdownIntervalFires
          => /\ ui'.cd.value = ui.cd.value - 1
             /\ Completes <=> ui'.cd.value = 0]_vars
  /\ [][Completes
          => /\ ui'.lastCapture.value = 0
             /\ ui'.cd.value = 0
             /\ ~ui'.cd.isActive
             /\ ui'.cd.fired = << "complete" >>]_vars

\* C34 witness: a countdown started at 2 has run down to 0 and completed,
\* and nothing but its completion was invoked.
C34_Witness ==
  /\ ui.cd.initial = 2
  /\ ui.cd.value = 0
  /\ ~ui.cd.isActive
  /\ ~ui.cd.timer
  /\ ui.cd.fired = << "complete" >>
  /\ ui.lastCapture.value = 0
  /\ ui.lastCapture.seq = 1

(***************************************************************************)
(* Claims about the inspection store.                                      *)
(***************************************************************************)
\* C35: in every reachable state of the store, isDetected is true exactly
\* when sustainedDetectionStart is not null, whatever the order in which
\* updateDetection, resetDetection, reset and the other actions are called.
C35_DetectedIffStartSet ==
  ui.store.isDetected <=> ui.store.sustainedDetectionStart # Null

\* C35 witness: updateDetection recorded a detection that began at 501 ms
\* and has lasted since, in a phase other than detecting.
C35_Witness ==
  /\ ui.store.isDetected
  /\ ui.store.sustainedDetectionStart = 501
  /\ ui.store.currentScore = <<2, 4>>
  /\ ui.store.phase = "uploading"
  /\ ui.now = 1500

\* C36: a call of updateDetection never changes sessionId, session,
\* currentStep or error, and changes the phase only from detecting to
\* countdown (the score is detected, the store was already detected and at
\* least SUSTAINED_DETECTION_MS have passed since the detection began) or
\* from countdown to detecting (the score is not detected); in loading,
\* model-loading, capturing, uploading, complete and error it leaves the
\* phase as it is.
C36_UpdateDetectionFrame ==
  [][StoreUpdateDetection
       => /\ ui'.store.sessionId = ui.store.sessionId
          /\ ui'.store.session = ui.store.session
          /\ ui'.store.step = ui.store.step
          /\ ui'.store.error = ui.store.error
          /\ \/ ui'.store.phase = ui.store.phase
             \/ /\ ui.store.phase = "detecting"
                /\ ui'.store.phase = "countdown"
                /\ ui.store.isDetected
                /\ ui'.store.isDetected
                /\ ui.now + MaxSkew - ui.store.sustainedDetectionStart
                     >= SUSTAINED_DETECTION_MS
             \/ /\ ui.store.phase = "countdown"
                /\ ui'.store.phase = "detecting"
                /\ ~ui'.store.isDetected
          /\ ui.store.phase \notin {"detecting", "countdown"}
               => ui'.store.phase = ui.store.phase]_vars

\* C36 witness: updateDetection took the store from detecting to countdown
\* (only it writes countdownValue) for a session on its first step, after a
\* detection of at least a second.
C36_Witness ==
  /\ ui.store.phase = "countdown"
  /\ ui.store.countdownValue = StepConfigs[1].countdownSeconds
  /\ ui.store.step = 1
  /\ ui.store.session = "active"
  /\ ui.store.sessionId = PageSession
  /\ ~ui.store.error
  /\ ui.store.isDetected
  /\ ui.now - ui.store.sustainedDetectionStart >= SUSTAINED_DETECTION_MS

(***************************************************************************)
(* SpecVision: useVisionClassifier.  globals stands for the module-level   *)
(* workerInstance, workerInitialized, workerInitializing and initPromise   *)
(* of useVisionClassifier.ts; hook[h].hInit says handleMessage of instance *)
(* h is registered on the worker.  The init effect has no cleanup, so the  *)
(* listener and the inferringRef it closes over outlive the component.     *)
(***************************************************************************)
\* The init effect of instance h: nothing but state when the worker is
\* initialized, a then-callback when it is initializing, and otherwise the
\* promise whose executor registers handleMessage and posts init.
VisionInitEffect(m, h) ==
  LET g == m.globals
      hk == m.hook[h]
  IN  IF g.workerInitialized
      THEN [m EXCEPT !.hook[h] = [hk EXCEPT !.isLoading = FALSE, !.isReady = TRUE]]
      ELSE IF g.workerInitializing /\ g.initPromise # "null"
      THEN [m EXCEPT !.hook[h] =
              IF g.initPromise = "fulfilled"
              THEN [hk EXCEPT !.isLoading = FALSE, !.isReady = TRUE]
              ELSE IF g.initPromise = "pending" THEN [hk EXCEPT !.awaiting = TRUE]
              ELSE hk]
      ELSE [m EXCEPT
              !.globals = [GetWorker(g) EXCEPT !.workerInitializing = TRUE,
                                               !.initPromise = "pending"],
              !.hook[h] = [hk EXCEPT !.hInit = TRUE],
              !.posts = Append(@, ToWorker("init", StepConfigs[hk.step], NoFrame))]

\* One message of the worker dispatched to every handleMessage registered on
\* it, and the then-callbacks of the promise a ready message resolves.
VisionHandleMessage(m) ==
  LET type == m.msg.type
      heard == \E h \in Hooks : m.hook[h].hInit
      g == m.globals
      After(hk) ==
        IF hk.hInit
        THEN IF type = "ready" THEN [hk EXCEPT !.isLoading = FALSE, !.isReady = TRUE]
             ELSE IF type = "error" THEN [hk EXCEPT !.isLoading = FALSE, !.error = TRUE]
             ELSE IF type = "result" THEN [hk EXCEPT !.inferringRef = FALSE]
             ELSE hk
        ELSE IF hk.awaiting /\ heard /\ type = "ready"
             THEN [hk EXCEPT !.isLoading = FALSE, !.isReady = TRUE, !.awaiting = FALSE]
        ELSE IF hk.awaiting /\ heard /\ type = "error"
             THEN [hk EXCEPT !.awaiting = FALSE]
        ELSE hk
  IN  [m EXCEPT
         !.hook = [h \in Hooks |-> After(m.hook[h])],
         !.globals =
           IF ~heard \/ type \notin {"ready", "error"} THEN g
           ELSE [g EXCEPT
                   !.workerInitialized = IF type = "ready" THEN TRUE ELSE @,
                   !.workerInitializing = FALSE,
                   !.initPromise = IF @ # "pending" THEN @
                                   ELSE IF type = "ready" THEN "fulfilled"
                                   ELSE "rejected"]]

\* classify(imageDataUrl) of instance h.
VisionClassify(m, h, frame) ==
  IF ~m.globals.workerInitialized \/ m.hook[h].inferringRef
  THEN m
  ELSE [m EXCEPT !.hook[h].inferringRef = TRUE,
                 !.globals = GetWorker(@),
                 !.posts = Append(@, ToWorker("classify", NoConfig, frame))]

\* A component using the hook mounts: its first render (isReady starts as
\* workerInitialized) and its init effect.  An index whose handleMessage is
\* registered stays that instance's.
VisionMount(h) ==
  /\ ~hook[h].mounted
  /\ ~hook[h].hInit
  /\ LET fresh == [HookFresh(globals, 1) EXCEPT !.isReady = globals.workerInitialized]
     IN  CommitHooks(VisionInitEffect([Main EXCEPT !.hook[h] = fresh], h))
  /\ UNCHANGED <<worker, tasks, outbox, ghost, ui>>

\* The main thread dispatches the next message of the worker.
VisionDeliver ==
  /\ outbox # <<>>
  /\ CommitHooks(VisionHandleMessage([Main EXCEPT !.msg = Head(outbox)]))
  /\ outbox' = Tail(outbox)
  /\ UNCHANGED <<worker, tasks, ghost, ui>>

\* The component unmounts (nothing is cleaned up), or offers a frame.
NextVision ==
  \/ WorkerOnMessage
  \/ LoadSucceeds
  \/ LoadFails
  \/ \E i \in 1..Len(tasks) : ClassifyFinish(i)
  \/ VisionDeliver
  \/ \E h \in Hooks : VisionMount(h)
  \/ \E h \in Hooks :
       /\ hook[h].mounted
       /\ hook' = [hook EXCEPT ![h].mounted = FALSE, ![h].awaiting = FALSE]
       /\ UNCHANGED <<worker, inbox, tasks, outbox, globals, ghost, ui>>
  \/ \E h \in Hooks, frame \in ExecFrames :
       /\ hook[h].mounted
       /\ CommitHooks(VisionClassify(Main, h, frame))
       /\ UNCHANGED <<worker, tasks, outbox, ghost, ui>>

SpecVision == InitExec /\ [][NextVision]_vars

\* A result message is dispatched and nothing is left to answer.
LastResultDelivered ==
  /\ VisionDeliver
  /\ Head(outbox).type = "result"
  /\ tasks = <<>>
  /\ \A i \in 1..Len(inbox) : inbox[i].type # "classify"
  /\ \A i \in 2..Len(outbox) : outbox[i].type # "result"

\* C37: every instance that sent a classify request has its in-flight flag
\* cleared when the worker answers with result, an instance mounted after
\* the worker was initialized or initializing included: once the last
\* result is dispatched, every classify call having been answered, no mounted
\* instance is still in flight.
C37_InFlightClearedOnResult ==
  [][(LastResultDelivered /\ ~ghost.frameFailed)
       => \A h \in Hooks : hook'[h].mounted => ~hook'[h].inferringRef]_vars

(***************************************************************************)
(* The mock backend's session progress (SpecSession).                      *)
(***************************************************************************)
\* The session's state is consistent: one completed step per index passed,
\* in the order of INSPECTION_STEPS, and completed exactly at the end.
SessionConsistent(state) ==
  /\ Len(state.completedSteps) = state.currentStepIndex
  /\ \A k \in 1..Len(state.completedSteps) : state.completedSteps[k].stepId = k
  /\ state.currentStepIndex <= Len(StepConfigs)
  /\ state.status = "completed" <=> state.currentStepIndex = Len(StepConfigs)

\* C38: after any sequence of getSession and captureStep calls, every
\* session has completedSteps.length = currentStepIndex, its steps completed
\* in their defined order each exactly once, and status completed iff all
\* steps are captured; a captureStep response has nextStep null exactly when
\* it answers the capture of the last step, and the following step otherwise.
C38_SessionProgress ==
  /\ [](\A id \in SessionIds : SessionConsistent(ui.server[id]))
  /\ [][CaptureCalled
          => LET call == ghost'.lastCall
             IN  /\ call.nextStep = 0
                      <=> (call.outcome = "success"
                             /\ call.stepId = Len(StepConfigs))
                 /\ (call.outcome = "success" /\ call.stepId < Len(StepConfigs))
                      => call.nextStep = call.stepId + 1
                 /\ call.outcome # "success" => call.nextStep = -1]_vars

\* C38 witness: the capture of the last step was answered with nextStep
\* null, and the session is completed with every step recorded once, in
\* order, while the other session is part-way.
C38_Witness ==
  /\ ghost.lastCall.outcome = "success"
  /\ ghost.lastCall.stepId = Len(StepConfigs)
  /\ ghost.lastCall.nextStep = 0
  /\ LET state == ui.server[ghost.lastCall.session]
     IN  /\ state.status = "completed"
         /\ state.currentStepIndex = Len(StepConfigs)
         /\ [k \in 1..Len(state.completedSteps) |-> state.completedSteps[k].stepId]
              = [k \in 1..Len(StepConfigs) |-> k]
  /\ \E id \in SessionIds :
       /\ ui.server[id].status = "active"
       /\ ui.server[id].currentStepIndex = 1

\* A client received a getSession response.
GetCalled == ghost'.lastGet # ghost.lastGet

\* C39: once a session is completed, every further capture is rejected with
\* SESSION_EXPIRED and the session's state never changes again; a getSession
\* response has currentStep null exactly when its status is not active, and
\* the step after the last completed one otherwise.
C39_CompletedSessionIsFinal ==
  /\ [][\A id \in SessionIds :
          ui.server[id].status = "completed" => ui'.server[id] = ui.server[id]]_vars
  /\ [][(CaptureCalled /\ SessionBefore.status = "completed")
          => /\ ghost'.lastCall.outcome = "SESSION_EXPIRED"
             /\ ghost'.lastCall.nextStep = -1
             /\ SessionAfter = SessionBefore]_vars
  /\ [][GetCalled
          => LET got == ghost'.lastGet
             IN  /\ got.status = ui'.server[got.session].status
                 /\ got.currentStep = 0 <=> got.status # "active"
                 /\ got.status = "active"
                      => got.currentStep
                           = ui'.server[got.session].currentStepIndex + 1]_vars

\* C39 witness: getSession reported a session completed, with currentStep
\* null and every step among its completedSteps, and the session rejected
\* a capture for its last step with SESSION_EXPIRED.
C39_Witness ==
  /\ ghost.lastCall.outcome = "SESSION_EXPIRED"
  /\ ghost.lastCall.stepId = Len(StepConfigs)
  /\ ghost.lastGet.session = ghost.lastCall.session
  /\ ghost.lastGet.status = "completed"
  /\ ghost.lastGet.currentStep = 0
  /\ ghost.lastGet.completed = Len(StepConfigs)
  /\ ui.server[ghost.lastGet.session].status = "completed"

====
